---------------------------- MODULE Spec2Model ----------------------------
(***************************************************************************)
(* NeoProtect attack notifier: the attack lifecycle tracker                *)
(* (src/main.go), the attack entity (src/neoprotect/client.go) and the     *)
(* notification fan-out (src/integrations/manager.go).                     *)
(*                                                                         *)
(* Time is counted in hours.  A nil *time.Time is NoTime.                  *)
(***************************************************************************)
EXTENDS Integers, Sequences, FiniteSets, TLC

(***************************************************************************)
(* Bounds of the model.                                                    *)
(***************************************************************************)
\* longest snapshot list one fetch returns
MaxSnap == 2
\* hours the clock advances between two observations of it
TickHours == 12
\* the clock stops advancing here
MaxTime == 36
\* most messages the Discord bot posts in one conversation
MaxMsgs == 3
\* longest signature list of an attack handed to Equal and CalculateDiff
MaxSigs == 2
\* most executions of fetchAndProcessActiveAttacks the driver loop starts
MaxCycles == 3
\* most ticks the ticker drops
MaxMissed == 1

(***************************************************************************)
(* Program constants.                                                      *)
(***************************************************************************)
\* cleanupEndedAttacks: 24*time.Hour
RetentionHours == 24

NoTime == -1

(***************************************************************************)
(* Attack entity.                                                          *)
(***************************************************************************)
Sig(id, name, pps, bps) ==
    [id |-> id, name |-> name, startedAt |-> 0, endedAt |-> NoTime,
     pps |-> pps, bps |-> bps]

Attack(id, dst, sigs) ==
    [isNil |-> FALSE, id |-> id, dst |-> dst, startedAt |-> 0,
     endedAt |-> NoTime, sigs |-> sigs]

\* a nil *Attack, as json decodes the array element null
NilAttack ==
    [isNil |-> TRUE, id |-> "", dst |-> "", startedAt |-> NoTime,
     endedAt |-> NoTime, sigs |-> <<>>]

timeEqual(t1, t2) ==
    IF t1 = NoTime /\ t2 = NoTime THEN TRUE
    ELSE IF t1 = NoTime \/ t2 = NoTime THEN FALSE
    ELSE t1 = t2

\* aSignatures[sig.ID] = sig over a.Signatures in order: the last one wins
LastSigWithID(sigs, sid) ==
    LET idx == {i \in 1..Len(sigs) : sigs[i].id = sid}
        last == CHOOSE i \in idx : \A j \in idx : j <= i
    IN sigs[last]

SigMatches(aSigs, sig) ==
    /\ \E i \in 1..Len(aSigs) : aSigs[i].id = sig.id
    /\ LET aSig == LastSigWithID(aSigs, sig.id)
       IN /\ aSig.name = sig.name
          /\ aSig.pps = sig.pps
          /\ aSig.bps = sig.bps
          /\ timeEqual(aSig.startedAt, sig.startedAt)
          /\ timeEqual(aSig.endedAt, sig.endedAt)

Equal(a, other) ==
    IF a.isNil \/ other.isNil THEN a.isNil = other.isNil
    ELSE /\ a.id = other.id
         /\ a.dst = other.dst
         /\ timeEqual(a.startedAt, other.startedAt)
         /\ timeEqual(a.endedAt, other.endedAt)
         /\ Len(a.sigs) = Len(other.sigs)
         /\ \A i \in 1..Len(other.sigs) : SigMatches(a.sigs, other.sigs[i])

(***************************************************************************)
(* Configuration.                                                          *)
(***************************************************************************)
MonitorModes == {"all", "specific"}
SpecificIPs == <<"ip1", "ipB">>
BlacklistedIPs == {"ipB"}

IsBlacklisted(ip) == ip \in BlacklistedIPs

Integrations == {"console", "discord", "discord_bot", "webhook"}

(***************************************************************************)
(* What upstream can report.                                               *)
(***************************************************************************)
SYN == Sig("s1", "SYN", 10, 1000)
UDP == Sig("s2", "UDP", 50, 5000)

Upstream ==
    { Attack("a", "ip1", <<SYN>>),
      Attack("a", "ip1", <<SYN, UDP>>),
      Attack("b", "ip2", <<SYN>>),
      Attack("c", "ipB", <<SYN>>),
      Attack("", "ip1", <<SYN>>),
      NilAttack }

RECURSIVE SeqsUpTo(_, _)
SeqsUpTo(S, n) ==
    IF n = 0 THEN {<<>>}
    ELSE LET shorter == SeqsUpTo(S, n - 1)
         IN shorter \cup {Append(s, x) : s \in {t \in shorter : Len(t) = n - 1}, x \in S}

Snapshots == SeqsUpTo(Upstream, MaxSnap)

VARIABLES
    knownAttacks,     \* monitorAttacks: map attack id -> last seen attack
    messageIDs,       \* MessageTracker.messageIDs: attack id -> integration -> message id
                      \* (attack id -> message id in the per-address variant)
    now,              \* the wall clock, in hours
    monitorMode,      \* cfg.MonitorMode
    down,             \* the integrations whose calls fail
    unread,           \* Discord's answer to a posted message holds no id to read
    events,           \* the notifications the last step dispatched, in order
    outcome,          \* how the last step ended
    validAttacks,     \* fetchAndProcessActiveAttacks: the last cycle's filtered list
    skipped,          \* why the last cycle dropped fetched records
    everNew,          \* history: ids a New notification was dispatched for
    everEnded,        \* history: ids an Ended notification was dispatched for
    fetches,          \* one fetch per address: what GetActiveAttack answered for each
    fetchedList,      \* history: the list GetAllAttacksAllPages answered, where recorded
    op,               \* the Manager method in progress: New, Update or Ended
    mainPC,           \* where that method's own goroutine stands
    task,             \* where the goroutine started for each integration stands
    calls,            \* how often each integration's operation was invoked
    answer,           \* what each integration's operation answered
    msgID,            \* NotifyNewAttack: the message id each integration answered
    passedID,         \* the message id each integration's operation was handed
    did,              \* what each integration's operation did with the event
    results,          \* NotifyNewAttack: the buffered channel results
    closed,           \* NotifyNewAttack: results is closed
    wg,               \* the method's sync.WaitGroup counter
    lastErr,          \* the method's variable lastErr: an interface value, two words
    returned,         \* what the method returned
    trackedAtCall,    \* history: MessageTracker.messageIDs when the method was called
    registered,       \* the names in Manager.integrations
    received,         \* history: how many results the collector has read
    attackCache,      \* DiscordBotIntegration.attackCache: attack id -> message id
    posted,           \* the bot's messages that exist in the Discord channel
    sent,             \* how many messages the bot has posted
    botLast,          \* what the bot's last operation was handed and did
    botCall,          \* the bot's operation in progress and where it stands
    refreshing,       \* the messages whose delayed refresh edit is yet to come
    shown,            \* message id -> the event whose embed the message shows
    argA,             \* the receiver of the entity method applied
    argB,             \* the method's argument
    applied,          \* the entity method applied: Equal or CalculateDiff
    isEqual,          \* what Equal answered
    diff,             \* what CalculateDiff answered
    storeCall,        \* the MessageTracker method last called, its arguments and answer
    recorded,         \* history: (attack id, integration) -> the last id recorded for it
    caller,           \* per dispatch task: the MessageTracker call it is in
    mu,               \* MessageTracker.mu: the writer and the readers that hold it
    loopPC,           \* where monitorAttacks stands
    tickerC,          \* how many ticks wait in ticker.C, a channel of capacity one
    missed,           \* history: how many ticks the ticker dropped, ticker.C being full
    ctxDone,          \* ctx is cancelled
    phase,            \* where each execution of fetchAndProcessActiveAttacks stands
    accesses,         \* history: the accesses to knownAttacks, in order
    dgClosed,         \* Manager.Shutdown has closed the bot's session and cleared it
    late              \* history: the cycles that called the bot after its Shutdown

trackerVars == <<knownAttacks, now, monitorMode, events, outcome,
                 validAttacks, skipped, everNew, everEnded, fetches,
                 fetchedList>>

fanVars == <<op, mainPC, task, calls, answer, msgID, passedID, did, results, closed, wg,
             lastErr, returned, trackedAtCall, registered, received>>

botVars == <<attackCache, posted, sent, botLast, botCall, refreshing, shown>>

entityVars == <<argA, argB, applied, isEqual, diff>>

storeVars == <<storeCall, recorded, caller, mu>>

loopVars == <<loopPC, tickerC, missed, ctxDone, phase, accesses, dgClosed, late>>

vars == <<trackerVars, messageIDs, down, unread, fanVars, botVars, entityVars, storeVars,
          loopVars>>


(***************************************************************************)
(* Go maps as functions on the set of their keys.                          *)
(***************************************************************************)
Put(m, k, v) == [x \in (DOMAIN m) \cup {k} |-> IF x = k THEN v ELSE m[x]]

Remove(m, K) == [x \in (DOMAIN m) \ K |-> m[x]]

EmptyMap == [x \in {} |-> 0]

InSeq(x, s) == \E i \in 1..Len(s) : s[i] = x

Perms(S) ==
    {p \in [1..Cardinality(S) -> S] : \A i, j \in 1..Cardinality(S) : p[i] = p[j] => i = j}

(***************************************************************************)
(* Attack.CalculateDiff.                                                   *)
(***************************************************************************)
\* Attack.Duration at time t, in hours
Duration(a, t) ==
    IF a.startedAt = NoTime THEN 0
    ELSE (IF a.endedAt # NoTime THEN a.endedAt ELSE t) - a.startedAt

\* time.Duration.String of a whole number of hours
DurationString(d) == IF d = 0 THEN "0s" ELSE ToString(d) \o "h0m0s"

RECURSIVE PeakOf(_, _, _)
PeakOf(sigs, field, peak) ==
    IF sigs = <<>> THEN peak
    ELSE PeakOf(Tail(sigs), field,
                IF Head(sigs)[field] > peak THEN Head(sigs)[field] ELSE peak)

\* a peak that is the value of the last signature
GetPeakBPSOfLast(a) == IF a.sigs = <<>> THEN 0 ELSE a.sigs[Len(a.sigs)].bps

GetPeakBPS(a) == PeakOf(a.sigs, "bps", 0)

GetPeakPPS(a) == PeakOf(a.sigs, "pps", 0)

\* CalculateDiff's list of new signatures that lists every signature
NewSignatureNamesAll(a, previous) == [i \in 1..Len(a.sigs) |-> a.sigs[i].name]

\* the names of a's signatures whose id previous has no signature of, in order
NewSignatureNames(a, previous) ==
    LET previousSigs == {previous.sigs[i].id : i \in 1..Len(previous.sigs)}
        fresh == SelectSeq(a.sigs, LAMBDA sig : sig.id \notin previousSigs)
    IN [i \in 1..Len(fresh) |-> fresh[i].name]

\* a map[string]interface{}: nil or a function on its keys; panics when the
\* call dereferences a nil receiver
NilDiff == [panics |-> FALSE, isNil |-> TRUE, entries |-> <<>>]

PutIf(cond, m, k, v) == IF cond THEN Put(m, k, v) ELSE m

CalculateDiff(a, previous, t) ==
    IF previous.isNil THEN NilDiff
    ELSE IF a.isNil THEN [panics |-> TRUE, isNil |-> TRUE, entries |-> <<>>]
    ELSE LET ended == previous.endedAt = NoTime /\ a.endedAt # NoTime
             d1 == PutIf(ended, PutIf(ended, EmptyMap, "ended", TRUE),
                         "duration", DurationString(Duration(a, t)))
             bpsDiffers == GetPeakBPS(a) # GetPeakBPS(previous)
             d2 == PutIf(bpsDiffers,
                         PutIf(bpsDiffers, d1, "bpsPeakChange",
                               GetPeakBPS(a) - GetPeakBPS(previous)),
                         "bpsPeakCurrent", GetPeakBPS(a))
             ppsDiffers == GetPeakPPS(a) # GetPeakPPS(previous)
             d3 == PutIf(ppsDiffers,
                         PutIf(ppsDiffers, d2, "ppsPeakChange",
                               GetPeakPPS(a) - GetPeakPPS(previous)),
                         "ppsPeakCurrent", GetPeakPPS(a))
             newSignatures == NewSignatureNames(a, previous)
             d4 == PutIf(Len(newSignatures) > 0, d3, "newSignatures", newSignatures)
         IN [panics |-> FALSE, isNil |-> FALSE, entries |-> d4]

(***************************************************************************)
(* Message correlation store.                                              *)
(***************************************************************************)
\* an upsert that replaces the attack's whole entry
TrackMessageReplacingEntry(msgs, attackID, integrationName, messageID) ==
    IF messageID = "" \/ attackID = "" \/ integrationName = "" THEN msgs
    ELSE Put(msgs, attackID, Put(EmptyMap, integrationName, messageID))

TrackMessage(msgs, attackID, integrationName, messageID) ==
    IF messageID = "" \/ attackID = "" \/ integrationName = "" THEN msgs
    ELSE LET inner == IF attackID \in DOMAIN msgs THEN msgs[attackID] ELSE EmptyMap
         IN Put(msgs, attackID, Put(inner, integrationName, messageID))

GetMessageID(msgs, attackID, integrationName) ==
    IF attackID \in DOMAIN msgs /\ integrationName \in DOMAIN msgs[attackID]
    THEN msgs[attackID][integrationName]
    ELSE ""

RemoveMessage(msgs, attackID) == [x \in (DOMAIN msgs) \ {attackID} |-> msgs[x]]

(***************************************************************************)
(* Channels, as the tracker sees them: a channel that fails answers an     *)
(* error; the Discord webhook and the Discord bot answer the id of the     *)
(* message they posted, the generic webhook and the console answer no id;  *)
(* the console never fails, and the Discord webhook answers no id and no   *)
(* error when it cannot read one in Discord's answer.                      *)
(***************************************************************************)
PostedMessageID == [id \in {"a", "b", "c", ""} |->
    CASE id = "a" -> "m-a" [] id = "b" -> "m-b" [] id = "c" -> "m-c" [] OTHER -> "m-"]

\* the id of the message the Discord bot posts for an attack
BotMessageID == [id \in {"a", "b", "c", ""} |->
    CASE id = "a" -> "bot-a" [] id = "b" -> "bot-b" [] id = "c" -> "bot-c" [] OTHER -> "bot-"]

\* Integration.NotifyNewAttack: <<message id, failed>>
IntegrationNotifyNew(name, attack, failing) ==
    IF name \in failing /\ name # "console" THEN <<"", TRUE>>
    ELSE IF name = "discord"
    THEN <<IF unread THEN "" ELSE PostedMessageID[attack.id], FALSE>>
    ELSE IF name = "discord_bot" THEN <<BotMessageID[attack.id], FALSE>>
    ELSE <<"", FALSE>>

RECURSIVE TrackResults(_, _, _, _)
TrackResults(msgs, attack, names, failing) ==
    IF names = {} THEN msgs
    ELSE LET name == CHOOSE n \in names : TRUE
             res == IntegrationNotifyNew(name, attack, failing)
         IN TrackResults(TrackMessage(msgs, attack.id, name, res[1]),
                         attack, names \ {name}, failing)

\* Manager.NotifyNewAttack, as one step: every integration is called, each
\* non-empty message id is tracked under (attack id, integration name)
NotifyNewAttack(msgs, attack, failing) == TrackResults(msgs, attack, Integrations, failing)

(***************************************************************************)
(* One poll cycle.                                                         *)
(***************************************************************************)
\* a validity test that does not look at the target address
isValidAttackIgnoringAddress(attack) ==
    IF attack.isNil THEN FALSE
    ELSE IF attack.id = "" THEN FALSE
    ELSE TRUE

isValidAttack(attack) ==
    IF attack.isNil THEN FALSE
    ELSE IF attack.id = "" THEN FALSE
    ELSE IF attack.dst = "" THEN FALSE
    ELSE TRUE

\* monitorMode == "specific": the first listed ip equal to the target decides
KeptSpecific(attack, ipsToMonitor) ==
    /\ InSeq(attack.dst, ipsToMonitor)
    /\ ~IsBlacklisted(attack.dst)

\* the bulk filter without its blacklist test
KeptAllIgnoringBlacklist(attack) == TRUE

KeptAll(attack) == ~IsBlacklisted(attack.dst)

FilterByMode(attacks, mode, ipsToMonitor) ==
    IF mode = "specific"
    THEN SelectSeq(attacks, LAMBDA a : KeptSpecific(a, ipsToMonitor))
    ELSE SelectSeq(attacks, KeptAll)

ValidAttacks(attacks) == SelectSeq(attacks, isValidAttack)

\* attack.DstAddressString is read of every fetched record before
\* isValidAttack is asked: a nil record is a nil pointer dereference
Panics(attacks, mode, ipsToMonitor) ==
    /\ \E i \in 1..Len(attacks) : attacks[i].isNil
    /\ (mode = "specific" => Len(ipsToMonitor) > 0)

NewEvent(attack) == [kind |-> "New", attack |-> attack, previous |-> NilAttack]
UpdateEvent(attack, previous) == [kind |-> "Update", attack |-> attack, previous |-> previous]
EndedEvent(attack) == [kind |-> "Ended", attack |-> attack, previous |-> NilAttack]

\* the loop body taking a stored, ended attack for an absent one
ProcessOneNewOnEnded(st, attack, failing) ==
    IF attack.id \notin DOMAIN st.known \/ st.known[attack.id].endedAt # NoTime
    THEN [known |-> Put(st.known, attack.id, attack),
          msgs |-> NotifyNewAttack(st.msgs, attack, failing),
          events |-> Append(st.events, NewEvent(attack))]
    ELSE IF ~Equal(attack, st.known[attack.id])
    THEN [known |-> Put(st.known, attack.id, attack),
          msgs |-> st.msgs,
          events |-> Append(st.events, UpdateEvent(attack, st.known[attack.id]))]
    ELSE st

\* the loop body notifying a new attack without storing it
ProcessOneNoInsert(st, attack, failing) ==
    IF attack.id \notin DOMAIN st.known
    THEN [known |-> st.known,
          msgs |-> NotifyNewAttack(st.msgs, attack, failing),
          events |-> Append(st.events, NewEvent(attack))]
    ELSE IF ~Equal(attack, st.known[attack.id])
    THEN [known |-> Put(st.known, attack.id, attack),
          msgs |-> st.msgs,
          events |-> Append(st.events, UpdateEvent(attack, st.known[attack.id]))]
    ELSE st

\* the loop body taking its copy of the stored attack after the overwrite
ProcessOnePreviousAfterOverwrite(st, attack, failing) ==
    IF attack.id \notin DOMAIN st.known
    THEN [known |-> Put(st.known, attack.id, attack),
          msgs |-> NotifyNewAttack(st.msgs, attack, failing),
          events |-> Append(st.events, NewEvent(attack))]
    ELSE IF ~Equal(attack, st.known[attack.id])
    THEN [known |-> Put(st.known, attack.id, attack),
          msgs |-> st.msgs,
          events |-> Append(st.events, UpdateEvent(attack, attack))]
    ELSE st

\* the loop body notifying an update for every record of a known attack
ProcessOneNotifyingUnchanged(st, attack, failing) ==
    IF attack.id \notin DOMAIN st.known
    THEN [known |-> Put(st.known, attack.id, attack),
          msgs |-> NotifyNewAttack(st.msgs, attack, failing),
          events |-> Append(st.events, NewEvent(attack))]
    ELSE [known |-> Put(st.known, attack.id, attack),
          msgs |-> st.msgs,
          events |-> Append(st.events, UpdateEvent(attack, st.known[attack.id]))]

\* the loop body storing a new attack only when every integration was notified
ProcessOneStoringOnSuccess(st, attack, failing) ==
    IF attack.id \notin DOMAIN st.known
    THEN [known |-> IF failing = {} THEN Put(st.known, attack.id, attack) ELSE st.known,
          msgs |-> NotifyNewAttack(st.msgs, attack, failing),
          events |-> Append(st.events, NewEvent(attack))]
    ELSE IF ~Equal(attack, st.known[attack.id])
    THEN [known |-> Put(st.known, attack.id, attack),
          msgs |-> st.msgs,
          events |-> Append(st.events, UpdateEvent(attack, st.known[attack.id]))]
    ELSE st

\* the body of processActiveAttacks' loop
ProcessOne(st, attack, failing) ==
    IF attack.id \notin DOMAIN st.known
    THEN [known |-> Put(st.known, attack.id, attack),
          msgs |-> NotifyNewAttack(st.msgs, attack, failing),
          events |-> Append(st.events, NewEvent(attack))]
    ELSE IF ~Equal(attack, st.known[attack.id])
    THEN [known |-> Put(st.known, attack.id, attack),
          msgs |-> st.msgs,
          events |-> Append(st.events, UpdateEvent(attack, st.known[attack.id]))]
    ELSE st

RECURSIVE processActiveAttacks(_, _, _)
processActiveAttacks(attacks, st, failing) ==
    IF attacks = <<>> THEN st
    ELSE processActiveAttacks(Tail(attacks), ProcessOne(st, Head(attacks), failing), failing)

IDsOf(attacks) == {attacks[i].id : i \in 1..Len(attacks)}

\* ended detection that does not consult the cycle's list
ImplicitlyEndedIgnoringActive(known, activeIDs) ==
    {id \in DOMAIN known : known[id].endedAt = NoTime}

ImplicitlyEnded(known, activeIDs) ==
    {id \in DOMAIN known : id \notin activeIDs /\ known[id].endedAt = NoTime}

\* checkForEndedAttacks; order is the order the map iteration visits the
\* entries it stamps
checkForEndedAttacks(activeAttacks, st, t, order) ==
    LET ending == ImplicitlyEnded(st.known, IDsOf(activeAttacks))
        stamped(id) == [st.known[id] EXCEPT !.endedAt = t]
    IN [known |-> [id \in DOMAIN st.known |->
                     IF id \in ending THEN stamped(id) ELSE st.known[id]],
        msgs |-> st.msgs,
        events |-> st.events \o [i \in 1..Len(order) |-> EndedEvent(stamped(order[i]))]]

\* the retention test with >= for >
ExpiredAtRetention(attack, t) ==
    attack.endedAt # NoTime /\ t - attack.endedAt >= RetentionHours

Expired(attack, t) == attack.endedAt # NoTime /\ t - attack.endedAt > RetentionHours

cleanupEndedAttacks(known, t) ==
    Remove(known, {id \in DOMAIN known : Expired(known[id], t)})

EventIDs(evs, kind) == {evs[i].attack.id : i \in {j \in 1..Len(evs) : evs[j].kind = kind}}

SkipReasons(attacks, mode, ipsToMonitor) ==
    {r \in {"blacklisted", "unmonitored", "invalid"} :
        \E i \in 1..Len(attacks) :
            LET a == attacks[i]
                listed == mode = "all" \/ InSeq(a.dst, ipsToMonitor)
            IN \/ r = "unmonitored" /\ ~listed
               \/ r = "blacklisted" /\ listed /\ IsBlacklisted(a.dst)
               \/ r = "invalid" /\ listed /\ ~IsBlacklisted(a.dst) /\ ~isValidAttack(a)}

(***************************************************************************)
(* fetchAndProcessActiveAttacks with one fetch per monitored address.      *)
(***************************************************************************)
\* cfg.SpecificIPs of the configuration the per-address cycles run under
AddressIPs == <<"ip1", "ip2", "ipB">>

AddressSet == {AddressIPs[i] : i \in 1..Len(AddressIPs)}

\* what one GetActiveAttack call answers: an error, ErrNoActiveAttack, or the
\* decoded attack; "skipped" stands for an address that is not fetched
FetchAnswer(kind, attack) == [kind |-> kind, attack |-> attack]

NoFetches == [ip \in AddressSet |-> FetchAnswer("skipped", NilAttack)]

FetchAnswers(ip) ==
    {FetchAnswer("error", NilAttack), FetchAnswer("none", NilAttack)}
        \cup {FetchAnswer("attack", a) : a \in {u \in Upstream : ~u.isNil /\ u.dst = ip}}

\* the fetch loop leaving at the first failed fetch
FetchedUntilError(ips, answers) ==
    LET failedAt == {i \in 1..Len(ips) :
                        ~IsBlacklisted(ips[i]) /\ answers[ips[i]].kind = "error"}
        reach == IF failedAt = {} THEN Len(ips)
                 ELSE CHOOSE i \in failedAt : \A j \in failedAt : i <= j
    IN [ip \in AddressSet |->
           IF \E i \in 1..reach : ips[i] = ip /\ ~IsBlacklisted(ip)
           THEN answers[ip] ELSE FetchAnswer("skipped", NilAttack)]

\* the addresses the loop over ipsToMonitor calls GetActiveAttack for, with
\* the answer to each: a blacklisted address is not fetched, every other
\* address is, whatever the fetches before it answered
Fetched(ips, answers) ==
    [ip \in AddressSet |->
        IF InSeq(ip, ips) /\ ~IsBlacklisted(ip)
        THEN answers[ip] ELSE FetchAnswer("skipped", NilAttack)]

\* allAttacks: the valid attacks fetched, in the order of ipsToMonitor
RECURSIVE AllAttacks(_, _)
AllAttacks(ips, fetched) ==
    IF ips = <<>> THEN <<>>
    ELSE LET got == fetched[Head(ips)]
         IN (IF got.kind = "attack" /\ ~got.attack.isNil /\ isValidAttack(got.attack)
             THEN <<got.attack>> ELSE <<>>) \o AllAttacks(Tail(ips), fetched)

\* the log lines of the per-address cycle about what it left out: an
\* invalid attack is left out of allAttacks without a line
AddressSkipReasons(ips, fetched) ==
    {r \in {"blacklisted", "failed"} :
        \E i \in 1..Len(ips) :
            \/ r = "blacklisted" /\ IsBlacklisted(ips[i])
            \/ r = "failed" /\ fetched[ips[i]].kind = "error"}

\* Manager.NotifyNewAttack of the per-address variant, which answers one
\* message id and the last error: <<message id, failed>>; the id is the
\* Discord bot's when it answers one, else the first that is not empty
AddrNotifyNewAttack(attack, failing) ==
    LET bot == IntegrationNotifyNew("discord_bot", attack, failing)[1]
        others == {IntegrationNotifyNew(name, attack, failing)[1] :
                      name \in Integrations \ {"discord_bot"}} \ {""}
    IN <<IF bot # "" THEN bot
         ELSE IF others = {} THEN ""
         ELSE CHOOSE m \in others : TRUE,
         \E name \in Integrations : IntegrationNotifyNew(name, attack, failing)[2]>>

\* MessageTracker.TrackMessage of the per-address variant: one id per attack
AddrTrackMessage(msgs, attackID, messageID) ==
    IF messageID = "" THEN msgs ELSE Put(msgs, attackID, messageID)

\* the body of processActiveAttacks' loop in the per-address variant: the
\* id NotifyNewAttack answers is tracked only when no integration failed
AddrProcessOne(st, attack, failing) ==
    IF attack.id \notin DOMAIN st.known
    THEN [known |-> Put(st.known, attack.id, attack),
          msgs |-> LET res == AddrNotifyNewAttack(attack, failing)
                   IN IF res[2] THEN st.msgs
                      ELSE AddrTrackMessage(st.msgs, attack.id, res[1]),
          events |-> Append(st.events, NewEvent(attack))]
    ELSE IF ~Equal(attack, st.known[attack.id])
    THEN [known |-> Put(st.known, attack.id, attack),
          msgs |-> st.msgs,
          events |-> Append(st.events, UpdateEvent(attack, st.known[attack.id]))]
    ELSE st

RECURSIVE AddrProcessActiveAttacks(_, _, _)
AddrProcessActiveAttacks(attacks, st, failing) ==
    IF attacks = <<>> THEN st
    ELSE AddrProcessActiveAttacks(Tail(attacks), AddrProcessOne(st, Head(attacks), failing),
                                  failing)

(***************************************************************************)
(* The tracker: monitorAttacks calls fetchAndProcessActiveAttacks once at  *)
(* start and then once per tick of its ticker, never two at a time.        *)
(***************************************************************************)
TrackerInit ==
    /\ knownAttacks = EmptyMap
    /\ now = 0
    /\ events = <<>>
    /\ outcome = "start"
    /\ validAttacks = <<>>
    /\ skipped = {}
    /\ everNew = {}
    /\ everEnded = {}
    /\ fetches = NoFetches
    /\ fetchedList = <<>>

\* an error value: the interface's type word and its data word
NilErr == [tab |-> "nil", data |-> "nil"]
ErrOf(c) == [tab |-> c, data |-> c]

\* the test err != nil reads the type word
IsNilErr(e) == e.tab = "nil"

\* no Manager method is running
FanIdle ==
    /\ op = "none"
    /\ mainPC = "idle"
    /\ registered = Integrations
    /\ received = 0
    /\ task = [c \in Integrations |-> "none"]
    /\ calls = [c \in Integrations |-> 0]
    /\ answer = [c \in Integrations |-> "none"]
    /\ msgID = [c \in Integrations |-> ""]
    /\ passedID = [c \in Integrations |-> ""]
    /\ did = [c \in Integrations |-> "none"]
    /\ results = <<>>
    /\ closed = FALSE
    /\ wg = 0
    /\ lastErr = NilErr
    /\ returned = "none"
    /\ trackedAtCall = messageIDs

\* no operation of the Discord bot is in progress
BotCallIdle == [op |-> "none", pc |-> "idle", passed |-> "", messageID |-> ""]

\* the Discord bot has not been called
BotIdle ==
    /\ attackCache = EmptyMap
    /\ posted = {}
    /\ sent = 0
    /\ botLast = [op |-> "none", passed |-> "", did |-> "none", target |-> ""]
    /\ botCall = BotCallIdle
    /\ refreshing = {}
    /\ shown = EmptyMap

\* no entity method has been applied
EntityIdle ==
    /\ argA = NilAttack
    /\ argB = NilAttack
    /\ applied = "none"
    /\ isEqual = FALSE
    /\ diff = NilDiff

\* no MessageTracker method has been called directly
StoreIdle ==
    /\ storeCall = [fn |-> "none", attackID |-> "", integrationName |-> "",
                    messageID |-> ""]
    /\ recorded = EmptyMap
    /\ caller = [t \in Integrations |->
                   [fn |-> "none", attackID |-> "", integrationName |-> "",
                    messageID |-> "", pc |-> "none", ret |-> "", held |-> EmptyMap]]
    /\ mu = [writer |-> "", readers |-> {}]

\* monitorAttacks as it is entered: the ticker is new, nothing has run
LoopIdle ==
    /\ loopPC = "initial"
    /\ tickerC = 0
    /\ missed = 0
    /\ ctxDone = FALSE
    /\ phase = [n \in 1..MaxCycles |-> "none"]
    /\ accesses = <<>>
    /\ dgClosed = FALSE
    /\ late = {}

\* the state after main's construction.  A channel's health reaches the
\* tracker's state only through the message id it answers; here the Discord
\* webhook is the channel that may be failing, and every set of failing
\* channels is taken in the fan-out (FanInit).
Init ==
    /\ TrackerInit
    /\ LoopIdle
    /\ messageIDs = EmptyMap
    /\ monitorMode \in MonitorModes
    /\ down \in SUBSET {"discord"}
    /\ unread \in {u \in BOOLEAN : u => down = {}}
    /\ FanIdle
    /\ BotIdle
    /\ EntityIdle
    /\ StoreIdle

Running == outcome # "panic"

\* the fetched list holds a nil record: the filter dereferences it
CyclePanics ==
    /\ Running
    /\ (\E attacks \in Snapshots : Panics(attacks, monitorMode, SpecificIPs)) = TRUE
    /\ outcome' = "panic"
    /\ events' = <<>>
    /\ validAttacks' = <<>>
    /\ skipped' = {}
    /\ UNCHANGED <<knownAttacks, messageIDs, now, monitorMode, down, unread, everNew, everEnded,
                   fetches, fetchedList>>
    /\ UNCHANGED <<fanVars, botVars, entityVars, storeVars, loopVars>>

\* the end of fetchAndProcessActiveAttacks, for its list validAttacks:
\* processActiveAttacks, checkForEndedAttacks (its map iteration in any
\* order), cleanupEndedAttacks
CycleEnd(valid, st1) ==
    \E order \in Perms(ImplicitlyEnded(st1.known, IDsOf(valid))) :
    \E st2 \in {checkForEndedAttacks(valid, st1, now, order)} :
        /\ knownAttacks' = cleanupEndedAttacks(st2.known, now)
        /\ messageIDs' = st2.msgs
        /\ events' = st2.events
        /\ validAttacks' = valid
        /\ everNew' = everNew \cup EventIDs(st2.events, "New")
        /\ everEnded' = everEnded \cup EventIDs(st2.events, "Ended")

\* processActiveAttacks, then the end of the cycle
CycleTail(valid) ==
    \E st1 \in {processActiveAttacks(valid,
                   [known |-> knownAttacks, msgs |-> messageIDs, events |-> <<>>],
                   down)} :
        CycleEnd(valid, st1)

\* fetchAndProcessActiveAttacks from its filter on, for a fetched list:
\* filter, validate, then the end of the cycle
Cycle(attacks) ==
    \E valid \in {ValidAttacks(FilterByMode(attacks, monitorMode, SpecificIPs))} :
        /\ CycleTail(valid)
        /\ skipped' = SkipReasons(attacks, monitorMode, SpecificIPs)

\* a failed fetch taken for an empty list
FetchFailsAsEmptyList ==
    /\ Running
    /\ Cycle(<<>>)
    /\ outcome' = "error"
    /\ UNCHANGED <<now, monitorMode, down, unread, fetches, fetchedList>>
    /\ UNCHANGED <<fanVars, botVars, entityVars, storeVars, loopVars>>

\* GetAllAttacksAllPages answers an error: the cycle returns at once
FetchFails ==
    /\ Running
    /\ outcome' = "error"
    /\ events' = <<>>
    /\ validAttacks' = <<>>
    /\ skipped' = {}
    /\ UNCHANGED <<knownAttacks, messageIDs, now, monitorMode, down, unread, everNew, everEnded,
                   fetches, fetchedList>>
    /\ UNCHANGED <<fanVars, botVars, entityVars, storeVars, loopVars>>

\* fetchAndProcessActiveAttacks on a fetched list
FetchAndProcess ==
    /\ Running
    /\ \E attacks \in Snapshots :
        /\ ~Panics(attacks, monitorMode, SpecificIPs)
        /\ Cycle(attacks)
    /\ outcome' = "ok"
    /\ UNCHANGED <<now, monitorMode, down, unread, fetches, fetchedList>>
    /\ UNCHANGED <<fanVars, botVars, entityVars, storeVars, loopVars>>

\* time passes between two cycles
Tick ==
    /\ Running
    /\ now + TickHours <= MaxTime
    /\ now' = now + TickHours
    /\ outcome' = "tick"
    /\ events' = <<>>
    /\ UNCHANGED <<knownAttacks, messageIDs, monitorMode, down, unread, validAttacks, skipped,
                   everNew, everEnded, fetches, fetchedList>>
    /\ UNCHANGED <<fanVars, botVars, entityVars, storeVars, loopVars>>

Next == FetchFails \/ CyclePanics \/ FetchAndProcess \/ Tick

Spec == Init /\ [][Next]_vars

(***************************************************************************)
(* The tracker over lists that hold structurally invalid records: the list *)
(* each cycle fetched is kept in fetchedList.                              *)
(***************************************************************************)
\* records upstream can report, some without an id or a target address
RawUpstream ==
    { Attack("a", "ip1", <<SYN>>),
      Attack("b", "ip2", <<SYN>>),
      Attack("", "ip1", <<SYN>>),
      Attack("a", "", <<SYN>>) }

RawSnapshots == SeqsUpTo(RawUpstream, MaxSnap)

\* fetchAndProcessActiveAttacks on a fetched list
RawFetchAndProcess ==
    /\ Running
    /\ \E attacks \in RawSnapshots :
        /\ ~Panics(attacks, monitorMode, SpecificIPs)
        /\ Cycle(attacks)
        /\ fetchedList' = attacks
    /\ outcome' = "ok"
    /\ UNCHANGED <<now, monitorMode, down, unread, fetches>>
    /\ UNCHANGED <<fanVars, botVars, entityVars, storeVars, loopVars>>

RawNext == RawFetchAndProcess \/ Tick

RawSpec == Init /\ [][RawNext]_vars

(***************************************************************************)
(* The tracker in "specific" mode with one fetch per address.              *)
(***************************************************************************)
AddrInit ==
    /\ TrackerInit
    /\ LoopIdle
    /\ messageIDs = EmptyMap
    /\ monitorMode = "specific"
    /\ down \in SUBSET {"discord"}
    /\ unread \in {u \in BOOLEAN : u => down = {}}
    /\ FanIdle
    /\ BotIdle
    /\ EntityIdle
    /\ StoreIdle

\* fetchAndProcessActiveAttacks: GetActiveAttack for each listed address,
\* the validity and blacklist filter, then the end of the cycle
AddrFetchAndProcess ==
    /\ Running
    /\ \E answers \in [AddressSet -> UNION {FetchAnswers(ip) : ip \in AddressSet}] :
        /\ \A ip \in AddressSet : answers[ip] \in FetchAnswers(ip)
        /\ \E fetched \in {Fetched(AddressIPs, answers)} :
           \E valid \in {ValidAttacks(SelectSeq(AllAttacks(AddressIPs, fetched), KeptAll))} :
              /\ fetches' = fetched
              /\ \E st1 \in {AddrProcessActiveAttacks(valid,
                                 [known |-> knownAttacks, msgs |-> messageIDs,
                                  events |-> <<>>],
                                 down)} :
                    CycleEnd(valid, st1)
              /\ skipped' = AddressSkipReasons(AddressIPs, fetched)
    /\ outcome' = "ok"
    /\ UNCHANGED <<now, monitorMode, down, unread, fetchedList>>
    /\ UNCHANGED <<fanVars, botVars, entityVars, storeVars, loopVars>>

AddrNext == AddrFetchAndProcess \/ Tick

AddrSpec == AddrInit /\ [][AddrNext]_vars

(***************************************************************************)
(* The driver loop: monitorAttacks runs in one goroutine, calls            *)
(* fetchAndProcessActiveAttacks once and then whenever its select takes a  *)
(* tick from ticker.C, and returns when its select takes ctx.Done().  The  *)
(* ticker goes on firing while a cycle runs; main cancels ctx on a signal. *)
(* Of a cycle only its stages are kept, with the accesses to knownAttacks  *)
(* each makes.                                                             *)
(***************************************************************************)
LoopInit ==
    /\ TrackerInit
    /\ LoopIdle
    /\ messageIDs = EmptyMap
    /\ monitorMode = "all"
    /\ down = {}
    /\ unread = FALSE
    /\ FanIdle
    /\ BotIdle
    /\ EntityIdle
    /\ StoreIdle

\* the executions of fetchAndProcessActiveAttacks begun so far
Begun == {n \in 1..MaxCycles : phase[n] # "none"}

\* those that have not returned
InProgress == {n \in Begun : phase[n] # "returned"}

LoopFrame == UNCHANGED <<trackerVars, messageIDs, down, unread, fanVars, botVars, entityVars,
                         storeVars>>

\* the call before the loop
InitialFetch ==
    /\ loopPC = "initial"
    /\ phase' = [phase EXCEPT ![1] = "fetch"]
    /\ loopPC' = "call"
    /\ UNCHANGED <<tickerC, missed, ctxDone, accesses, dgClosed, late>>
    /\ LoopFrame

\* a loop that starts each cycle in a goroutine of its own
TickCaseDetached ==
    /\ loopPC = "select"
    /\ tickerC = 1
    /\ Cardinality(Begun) < MaxCycles
    /\ tickerC' = 0
    /\ phase' = [phase EXCEPT ![Cardinality(Begun) + 1] = "fetch"]
    /\ UNCHANGED <<loopPC, missed, ctxDone, accesses, dgClosed, late>>
    /\ LoopFrame

\* case <-ticker.C: the call of fetchAndProcessActiveAttacks
TickCase ==
    /\ loopPC = "select"
    /\ tickerC = 1
    /\ Cardinality(Begun) < MaxCycles
    /\ tickerC' = 0
    /\ phase' = [phase EXCEPT ![Cardinality(Begun) + 1] = "fetch"]
    /\ loopPC' = "call"
    /\ UNCHANGED <<missed, ctxDone, accesses, dgClosed, late>>
    /\ LoopFrame

\* a select that takes ctx.Done() only when no tick waits
DoneCaseAfterTicks ==
    /\ loopPC = "select"
    /\ ctxDone
    /\ tickerC = 0
    /\ loopPC' = "returned"
    /\ UNCHANGED <<tickerC, missed, ctxDone, phase, accesses, dgClosed, late>>
    /\ LoopFrame

\* case <-ctx.Done(): return
DoneCase ==
    /\ loopPC = "select"
    /\ ctxDone
    /\ loopPC' = "returned"
    /\ UNCHANGED <<tickerC, missed, ctxDone, phase, accesses, dgClosed, late>>
    /\ LoopFrame

\* the execution returns to the loop
Returns(n, stage) ==
    /\ phase' = [phase EXCEPT ![n] = stage]
    /\ loopPC' = IF stage = "returned" /\ loopPC = "call" THEN "select" ELSE loopPC

\* GetAllAttacksAllPages answers: an error ends the cycle, a list goes on to
\* processActiveAttacks
StageFetch(n) ==
    /\ phase[n] = "fetch"
    /\ \E failed \in BOOLEAN : Returns(n, IF failed THEN "returned" ELSE "process")
    /\ UNCHANGED <<tickerC, missed, ctxDone, accesses, dgClosed, late>>
    /\ LoopFrame

\* processActiveAttacks, checkForEndedAttacks, cleanupEndedAttacks: each
\* reads and writes knownAttacks; the first two may dispatch notifications
\* to the channels, the bot among them
StageTable(n) ==
    /\ phase[n] \in {"process", "ended", "cleanup"}
    /\ accesses' = Append(accesses, [cycle |-> n, stage |-> phase[n]])
    /\ \E notifies \in BOOLEAN :
         late' = IF notifies /\ dgClosed /\ phase[n] \in {"process", "ended"}
                 THEN late \cup {n} ELSE late
    /\ Returns(n, CASE phase[n] = "process" -> "ended"
                     [] phase[n] = "ended" -> "cleanup"
                     [] OTHER -> "returned")
    /\ UNCHANGED <<tickerC, missed, ctxDone, dgClosed>>
    /\ LoopFrame

\* the ticker fires: the tick waits in ticker.C, or is dropped when one waits
TickerFires ==
    /\ loopPC # "returned"
    /\ IF tickerC = 0
       THEN tickerC' = 1 /\ UNCHANGED missed
       ELSE missed < MaxMissed /\ missed' = missed + 1 /\ UNCHANGED tickerC
    /\ UNCHANGED <<loopPC, ctxDone, phase, accesses, dgClosed, late>>
    /\ LoopFrame

\* main receives the termination signal: integrationManager.Shutdown(),
\* which closes the session of the Discord bot and sets it to nil
Shutdown ==
    /\ ~dgClosed
    /\ dgClosed' = TRUE
    /\ UNCHANGED <<loopPC, tickerC, missed, ctxDone, phase, accesses, late>>
    /\ LoopFrame

\* main, after Shutdown has returned: cancel()
Cancel ==
    /\ dgClosed
    /\ ~ctxDone
    /\ ctxDone' = TRUE
    /\ UNCHANGED <<loopPC, tickerC, missed, phase, accesses, dgClosed, late>>
    /\ LoopFrame

LoopNext ==
    \/ InitialFetch
    \/ TickCase
    \/ DoneCase
    \/ \E n \in 1..MaxCycles : StageFetch(n)
    \/ \E n \in 1..MaxCycles : StageTable(n)
    \/ TickerFires
    \/ Shutdown
    \/ Cancel

LoopSpec == LoopInit /\ [][LoopNext]_vars

\* case <-ticker.C once MaxCycles executions are on record: the call is
\* recorded in the place of the last one and the record of the accesses
\* starts anew, so that the loop can go round without end
TickCaseAgain ==
    /\ loopPC = "select"
    /\ tickerC = 1
    /\ Cardinality(Begun) = MaxCycles
    /\ tickerC' = 0
    /\ phase' = [phase EXCEPT ![MaxCycles] = "fetch"]
    /\ accesses' = <<>>
    /\ loopPC' = "call"
    /\ UNCHANGED <<missed, ctxDone, dgClosed, late>>
    /\ LoopFrame

LoopLiveNext == LoopNext \/ TickCaseAgain

\* the goroutine of monitorAttacks is scheduled and the cycle it is in
\* terminates (weak fairness of its steps); a select with several ready
\* cases takes one by uniform pseudo-random choice, so that a case ready
\* again and again is taken in the end (strong fairness of DoneCase)
LoopFairness ==
    /\ WF_vars(InitialFetch)
    /\ \A n \in 1..MaxCycles : WF_vars(StageFetch(n)) /\ WF_vars(StageTable(n))
    /\ SF_vars(DoneCase)

LoopLiveSpec == LoopInit /\ [][LoopLiveNext]_vars /\ LoopFairness

(***************************************************************************)
(* The fan-out: one call of Manager.NotifyNewAttack, NotifyAttackUpdate or *)
(* NotifyAttackEnded, with one goroutine per integration.                  *)
(***************************************************************************)
FanAttack == Attack("a", "ip1", <<SYN>>)

BotName == "discord_bot"

\* msg.ID of the next message Discord creates for the bot
FreshMessageID == "bot-" \o ToString(sent + 1)

\* the id the bot works with: the one it was handed, else its cached one
BotMessageTarget(passed, attackID) ==
    IF passed = "" /\ attackID \in DOMAIN attackCache THEN attackCache[attackID] ELSE passed

\* DiscordIntegration.NotifyAttackUpdate / NotifyAttackEnded: with a message
\* id both edit that message; with none the first posts a new message and
\* the second logs and returns nil
DiscordDoes(kind, messageID) ==
    IF kind = "Ended" /\ messageID = "" THEN "drop"
    ELSE IF messageID # "" THEN "edit"
    ELSE "send"

\* what an integration's operation sets out to do with the event: post a new
\* message ("send"), edit an existing one ("edit"), or nothing ("drop")
IntegrationDoes(name, kind, messageID, attackID) ==
    IF kind = "New" THEN "send"
    ELSE IF name = "discord" THEN DiscordDoes(kind, messageID)
    ELSE IF name = "discord_bot"
    THEN (IF BotMessageTarget(messageID, attackID) # "" THEN "edit" ELSE "send")
    ELSE "send"

\* Integration.NotifyAttackUpdate / NotifyAttackEnded: whether it answers an
\* error; an operation that does nothing answers nil
IntegrationNotifyFails(name, does, failing) ==
    does # "drop" /\ name \in failing /\ name # "console"

FanBegin ==
    /\ TrackerInit
    /\ LoopIdle
    /\ monitorMode = "all"
    /\ down \in SUBSET (Integrations \ {"console"})
    /\ op \in {"New", "Update", "Ended"}
    /\ unread \in {u \in BOOLEAN : u => op = "New" /\ "discord" \notin down}
    /\ messageIDs \in {EmptyMap,
                        TrackMessage(EmptyMap, "a", "discord", "m-old"),
                        TrackMessage(EmptyMap, "a", "discord_bot", BotMessageID["a"]),
                        NotifyNewAttack(EmptyMap, FanAttack, {})}
    /\ EntityIdle
    /\ StoreIdle
    /\ mainPC = "spawn"
    /\ task = [c \in Integrations |-> "none"]
    /\ calls = [c \in Integrations |-> 0]
    /\ answer = [c \in Integrations |-> "none"]
    /\ msgID = [c \in Integrations |-> ""]
    /\ passedID = [c \in Integrations |-> ""]
    /\ did = [c \in Integrations |-> "none"]
    /\ results = <<>>
    /\ closed = FALSE
    /\ wg = 0
    /\ lastErr = NilErr
    /\ returned = "none"
    /\ trackedAtCall = messageIDs
    /\ received = 0

\* a method of a Manager with all the integrations, and the bot when the
\* method is called.  For a new attack it holds no message id and no message
\* of the attack exists; for a known one it may have posted a message
\* before, bot-a, and hold its id, and the message is still in the channel
\* ("kept") or was deleted there ("deleted"); it has posted one when the
\* store holds its id
FanInit ==
    /\ FanBegin
    /\ registered = Integrations
    /\ botLast = [op |-> "none", passed |-> "", did |-> "none", target |-> ""]
    /\ botCall = BotCallIdle
    /\ refreshing = {}
    /\ \E had \in (IF op = "New" THEN {"none"}
                    ELSE IF GetMessageID(messageIDs, FanAttack.id, BotName) # ""
                    THEN {"kept", "deleted"}
                    ELSE {"none", "kept", "deleted"}) :
          /\ attackCache = IF had = "none" THEN EmptyMap
                           ELSE Put(EmptyMap, FanAttack.id, BotMessageID[FanAttack.id])
          /\ posted = IF had = "kept" THEN {BotMessageID[FanAttack.id]} ELSE {}
          /\ sent = IF had = "none" THEN 0 ELSE 1
          /\ shown = IF had = "kept"
                     THEN Put(EmptyMap, BotMessageID[FanAttack.id], "New") ELSE EmptyMap

\* a method of a Manager with any of the integrations, or none, and a bot
\* that holds no message id and has no message in the channel
FanAnyInit == FanBegin /\ registered \in SUBSET Integrations /\ BotIdle

\* a spawn loop that gives up once an integration has answered an error
MaySpawnUntilError(c) ==
    /\ mainPC = "spawn"
    /\ c \in registered
    /\ task[c] = "none"
    /\ \A k \in Integrations : answer[k] # "failed"

\* for name, integration := range m.integrations
MaySpawn(c) ==
    /\ mainPC = "spawn"
    /\ c \in registered
    /\ task[c] = "none"

\* wg.Add(1); go func(name, integration)
Spawn(c) ==
    /\ MaySpawn(c)
    /\ wg' = wg + 1
    /\ task' = [task EXCEPT ![c] = "started"]
    /\ UNCHANGED <<op, mainPC, calls, answer, msgID, passedID, results, closed, lastErr, returned>>
    /\ UNCHANGED <<trackerVars, messageIDs, down, unread, trackedAtCall, did, registered, received,
                   botVars, entityVars,
                   storeVars, loopVars>>

\* the range loop is over: NotifyNewAttack starts the closer and reads
\* results, the other two wait on the WaitGroup
SpawnDone ==
    /\ mainPC = "spawn"
    /\ \A c \in Integrations : ~MaySpawn(c)
    /\ mainPC' = IF op = "New" THEN "collect" ELSE "wait"
    /\ UNCHANGED <<op, task, calls, answer, msgID, passedID, results, closed, wg, lastErr, returned>>
    /\ UNCHANGED <<trackerVars, messageIDs, down, unread, trackedAtCall, did, registered, received,
                   botVars, entityVars,
                   storeVars, loopVars>>

\* a look-up of the message id under one integration's name for all
LookUpUnderOneName(c) ==
    /\ op \in {"Update", "Ended"}
    /\ task[c] = "started"
    /\ passedID' = [passedID EXCEPT ![c] = GetMessageID(messageIDs, FanAttack.id, "discord")]
    /\ task' = [task EXCEPT ![c] = "lookedup"]
    /\ UNCHANGED <<op, mainPC, calls, answer, msgID, results, closed, wg, lastErr, returned>>
    /\ UNCHANGED <<trackerVars, messageIDs, down, unread, trackedAtCall, did, registered, received,
                   botVars, entityVars,
                   storeVars, loopVars>>

\* messageID = messageTracker.GetMessageID(attack.ID, name)
LookUp(c) ==
    /\ op \in {"Update", "Ended"}
    /\ task[c] = "started"
    /\ passedID' = [passedID EXCEPT ![c] = GetMessageID(messageIDs, FanAttack.id, c)]
    /\ task' = [task EXCEPT ![c] = "lookedup"]
    /\ UNCHANGED <<op, mainPC, calls, answer, msgID, results, closed, wg, lastErr, returned>>
    /\ UNCHANGED <<trackerVars, messageIDs, down, unread, trackedAtCall, did, registered, received,
                   botVars, entityVars,
                   storeVars, loopVars>>

\* the goroutine DiscordBotIntegration.NotifyNewAttack started wakes after
\* its five seconds and edits the message it posted, with the embed of the
\* new attack and a new timestamp; an edit that Discord answers with an
\* error (the message is gone, or the call fails) is logged and leaves the
\* message as it is.  The goroutine reads d.dg without a nil test: once
\* Shutdown has set it to nil the call panics
BotRefresh ==
    /\ Running
    /\ \E m \in refreshing :
         /\ refreshing' = refreshing \ {m}
         /\ IF dgClosed
            THEN /\ outcome' = "panic"
                 /\ UNCHANGED shown
            ELSE /\ UNCHANGED outcome
                 /\ \E apiFails \in BOOLEAN :
                      shown' = IF m \in posted /\ ~apiFails
                               THEN Put(shown, m, "New") ELSE shown
    /\ UNCHANGED <<knownAttacks, now, monitorMode, events, validAttacks, skipped, everNew,
                   everEnded, fetches, fetchedList>>
    /\ UNCHANGED <<messageIDs, down, unread, attackCache, posted, sent, botLast, botCall>>
    /\ UNCHANGED <<fanVars, entityVars, storeVars, loopVars>>

\* DiscordBotIntegration.NotifyNewAttack, NotifyAttackUpdate or
\* NotifyAttackEnded, called by the Manager's goroutine with the id passed.
\* A call that answers an error (d.dg is nil, or the API call fails) leaves
\* the bot as it was.  NotifyNewAttack posts a message and, reading an id in
\* Discord's answer, caches it and starts the goroutine of the delayed
\* refresh edit, which the Manager knows nothing of.  The other two edit the
\* message they have an id of (NotifyAttackEnded then forgets the cached
\* id); when it is gone, or they have no id, they post a fresh message, whose
\* id NotifyAttackUpdate caches (after Unknown Message even an empty one)
BotCalled(passed) ==
    IF BotName \in down \/ dgClosed
    THEN /\ answer' = [answer EXCEPT ![BotName] = "failed"]
         /\ UNCHANGED <<msgID, botVars>>
    ELSE /\ answer' = [answer EXCEPT ![BotName] = "ok"]
         /\ UNCHANGED <<botLast, botCall>>
         /\ IF op = "New"
            THEN \E m \in {IntegrationNotifyNew(BotName, FanAttack, down)[1]} :
                 \E readID \in {m, ""} :
                   /\ posted' = posted \cup {m}
                   /\ sent' = sent + 1
                   /\ shown' = Put(shown, m, "New")
                   /\ attackCache' = IF readID # "" THEN Put(attackCache, FanAttack.id, readID)
                                     ELSE attackCache
                   /\ refreshing' = IF readID # "" THEN refreshing \cup {readID}
                                    ELSE refreshing
                   /\ msgID' = [msgID EXCEPT ![BotName] = readID]
            ELSE /\ UNCHANGED <<msgID, refreshing>>
                 /\ \E messageID \in {BotMessageTarget(passed, FanAttack.id)} :
                      IF messageID # "" /\ messageID \in posted
                      THEN /\ shown' = Put(shown, messageID, op)
                           /\ attackCache' = IF op = "Ended"
                                             THEN Remove(attackCache, {FanAttack.id})
                                             ELSE attackCache
                           /\ UNCHANGED <<posted, sent>>
                      ELSE /\ posted' = posted \cup {FreshMessageID}
                           /\ sent' = sent + 1
                           /\ shown' = Put(shown, FreshMessageID, op)
                           /\ \E readID \in (IF op = "Update" THEN {FreshMessageID, ""}
                                              ELSE {FreshMessageID}) :
                                attackCache' =
                                   IF op = "Update" /\ (messageID # "" \/ readID # "")
                                   THEN Put(attackCache, FanAttack.id, readID)
                                   ELSE attackCache

\* msgID, err := integration.NotifyNewAttack(ctx, attack), or
\* err := integration.NotifyAttackUpdate / NotifyAttackEnded(..., messageID):
\* the integration's operation is invoked and answers
Call(c) ==
    /\ \/ op = "New" /\ task[c] = "started"
       \/ op \in {"Update", "Ended"} /\ task[c] = "lookedup"
    /\ calls' = [calls EXCEPT ![c] = @ + 1]
    /\ \E does \in {IntegrationDoes(c, op, passedID[c], FanAttack.id)} :
          /\ did' = [did EXCEPT ![c] = does]
          /\ IF c = BotName
             THEN BotCalled(passedID[c])
             ELSE /\ answer' = [answer EXCEPT ![c] =
                        IF op = "New"
                        THEN (IF IntegrationNotifyNew(c, FanAttack, down)[2]
                              THEN "failed" ELSE "ok")
                        ELSE (IF IntegrationNotifyFails(c, does, down)
                              THEN "failed" ELSE "ok")]
                  /\ msgID' = [msgID EXCEPT ![c] =
                        IF op = "New" THEN IntegrationNotifyNew(c, FanAttack, down)[1]
                        ELSE ""]
                  /\ UNCHANGED botVars
    /\ task' = [task EXCEPT ![c] = "called"]
    /\ UNCHANGED <<op, mainPC, passedID, results, closed, wg, lastErr, returned>>
    /\ UNCHANGED <<trackerVars, messageIDs, down, unread, trackedAtCall, registered, received,
                   entityVars, storeVars, loopVars>>

\* results <- notifyResult{...}: the channel's buffer holds len(m.integrations)
Send(c) ==
    /\ op = "New"
    /\ task[c] = "called"
    /\ Len(results) < Cardinality(registered)
    /\ ~closed
    /\ results' = Append(results,
          [name |-> c,
           messageID |-> msgID[c],
           failed |-> answer[c] = "failed"])
    /\ task' = [task EXCEPT ![c] = "finishing"]
    /\ UNCHANGED <<op, mainPC, calls, answer, msgID, passedID, closed, wg, lastErr, returned>>
    /\ UNCHANGED <<trackerVars, messageIDs, down, unread, trackedAtCall, did, registered, received,
                   botVars, entityVars,
                   storeVars, loopVars>>

\* lastErr = err, in the integration's goroutine, with no lock held: the
\* store of the interface's type word
WriteErr(c) ==
    /\ op \in {"Update", "Ended"}
    /\ task[c] = "called"
    /\ answer[c] = "failed"
    /\ lastErr' = [lastErr EXCEPT !.tab = c]
    /\ task' = [task EXCEPT ![c] = "writing"]
    /\ UNCHANGED <<op, mainPC, calls, answer, msgID, passedID, results, closed, wg, returned>>
    /\ UNCHANGED <<trackerVars, messageIDs, down, unread, trackedAtCall, did, registered, received,
                   botVars, entityVars,
                   storeVars, loopVars>>

\* lastErr = err: the store of the interface's data word
WriteErrEnd(c) ==
    /\ task[c] = "writing"
    /\ lastErr' = [lastErr EXCEPT !.data = c]
    /\ task' = [task EXCEPT ![c] = "finishing"]
    /\ UNCHANGED <<op, mainPC, calls, answer, msgID, passedID, results, closed, wg, returned>>
    /\ UNCHANGED <<trackerVars, messageIDs, down, unread, trackedAtCall, did, registered, received,
                   botVars, entityVars,
                   storeVars, loopVars>>

\* defer wg.Done()
Done(c) ==
    /\ \/ task[c] = "finishing"
       \/ op \in {"Update", "Ended"} /\ task[c] = "called" /\ answer[c] = "ok"
    /\ wg' = wg - 1
    /\ task' = [task EXCEPT ![c] = "done"]
    /\ UNCHANGED <<op, mainPC, calls, answer, msgID, passedID, results, closed, lastErr, returned>>
    /\ UNCHANGED <<trackerVars, messageIDs, down, unread, trackedAtCall, did, registered, received,
                   botVars, entityVars,
                   storeVars, loopVars>>

\* a close of results that comes after the collector's loop
CloseAfterCollect ==
    /\ op = "New"
    /\ mainPC = "returned"
    /\ wg = 0
    /\ ~closed
    /\ closed' = TRUE
    /\ UNCHANGED <<op, mainPC, task, calls, answer, msgID, passedID, results, wg, lastErr, returned>>
    /\ UNCHANGED <<trackerVars, messageIDs, down, unread, trackedAtCall, did, registered, received,
                   botVars, entityVars,
                   storeVars, loopVars>>

\* go func() { wg.Wait(); close(results) }()
Close ==
    /\ op = "New"
    /\ mainPC # "spawn"
    /\ wg = 0
    /\ ~closed
    /\ closed' = TRUE
    /\ UNCHANGED <<op, mainPC, task, calls, answer, msgID, passedID, results, wg, lastErr, returned>>
    /\ UNCHANGED <<trackerVars, messageIDs, down, unread, trackedAtCall, did, registered, received,
                   botVars, entityVars,
                   storeVars, loopVars>>

\* a collector whose lastErr follows the last result it read
RecvLastResultWins ==
    /\ mainPC = "collect"
    /\ results # <<>>
    /\ LET result == Head(results)
       IN /\ lastErr' = IF result.failed THEN ErrOf(result.name) ELSE NilErr
          /\ messageIDs' = IF result.messageID # ""
                           THEN TrackMessage(messageIDs, FanAttack.id, result.name,
                                             result.messageID)
                           ELSE messageIDs
    /\ results' = Tail(results)
    /\ received' = received + 1
    /\ UNCHANGED <<op, mainPC, task, calls, answer, msgID, passedID, closed, wg, returned>>
    /\ UNCHANGED <<trackerVars, down, unread, trackedAtCall, did, registered, botVars, entityVars,
                   storeVars, loopVars>>

\* a collector that tracks every message id under one integration's name
RecvTrackingUnderOneName ==
    /\ mainPC = "collect"
    /\ results # <<>>
    /\ LET result == Head(results)
       IN /\ lastErr' = IF result.failed THEN ErrOf(result.name) ELSE lastErr
          /\ messageIDs' = IF result.messageID # ""
                           THEN TrackMessage(messageIDs, FanAttack.id, "webhook",
                                             result.messageID)
                           ELSE messageIDs
    /\ results' = Tail(results)
    /\ received' = received + 1
    /\ UNCHANGED <<op, mainPC, task, calls, answer, msgID, passedID, closed, wg, returned>>
    /\ UNCHANGED <<trackerVars, down, unread, trackedAtCall, did, registered, botVars, entityVars,
                   storeVars, loopVars>>

\* for result := range results: one iteration
Recv ==
    /\ mainPC = "collect"
    /\ results # <<>>
    /\ LET result == Head(results)
       IN /\ lastErr' = IF result.failed THEN ErrOf(result.name) ELSE lastErr
          /\ messageIDs' = IF result.messageID # ""
                           THEN TrackMessage(messageIDs, FanAttack.id, result.name,
                                             result.messageID)
                           ELSE messageIDs
    /\ results' = Tail(results)
    /\ received' = received + 1
    /\ UNCHANGED <<op, mainPC, task, calls, answer, msgID, passedID, closed, wg, returned>>
    /\ UNCHANGED <<trackerVars, down, unread, trackedAtCall, did, registered, botVars, entityVars,
                   storeVars, loopVars>>

\* results is closed and drained: return lastErr
ReturnNew ==
    /\ mainPC = "collect"
    /\ results = <<>>
    /\ closed
    /\ mainPC' = "returned"
    /\ returned' = lastErr
    /\ UNCHANGED <<op, task, calls, answer, msgID, passedID, results, closed, wg, lastErr>>
    /\ UNCHANGED <<trackerVars, messageIDs, down, unread, trackedAtCall, did, registered, received,
                   botVars, entityVars,
                   storeVars, loopVars>>

\* wg.Wait(); return lastErr
ReturnWait ==
    /\ mainPC = "wait"
    /\ wg = 0
    /\ mainPC' = "returned"
    /\ returned' = lastErr
    /\ UNCHANGED <<op, task, calls, answer, msgID, passedID, results, closed, wg, lastErr>>
    /\ UNCHANGED <<trackerVars, messageIDs, down, unread, trackedAtCall, did, registered, received,
                   botVars, entityVars,
                   storeVars, loopVars>>

FanNext ==
    \/ \E c \in Integrations : Spawn(c)
    \/ SpawnDone
    \/ \E c \in Integrations : LookUp(c)
    \/ \E c \in Integrations : Call(c)
    \/ \E c \in Integrations : Send(c)
    \/ \E c \in Integrations : WriteErr(c)
    \/ \E c \in Integrations : WriteErrEnd(c)
    \/ \E c \in Integrations : Done(c)
    \/ Close
    \/ Recv
    \/ ReturnNew
    \/ ReturnWait
    \/ BotRefresh

FanSpec == FanInit /\ [][FanNext]_vars

\* the goroutines of the method are scheduled while they can run, and every
\* call of an integration returns: a step that can be taken is taken
FanFairness == WF_vars(FanNext)

FanLiveSpec == FanAnyInit /\ [][FanNext]_vars /\ FanFairness

(***************************************************************************)
(* The Discord bot's conversation about one attack: the tracker's events   *)
(* for the attack, each handed by the Manager to DiscordBotIntegration     *)
(* with the message id the MessageTracker holds, while messages may be     *)
(* deleted in the Discord channel.                                         *)
(***************************************************************************)
BotAttack == Attack("a", "ip1", <<SYN>>)
BotAttackGrown == Attack("a", "ip1", <<SYN, UDP>>)

BotInit ==
    /\ TrackerInit
    /\ LoopIdle
    /\ messageIDs = EmptyMap
    /\ monitorMode = "all"
    /\ down = {}
    /\ unread = FALSE
    /\ FanIdle
    /\ BotIdle
    /\ EntityIdle
    /\ StoreIdle

\* processActiveAttacks finds the attack absent and stores it, then
\* Manager.NotifyNewAttack calls DiscordBotIntegration.NotifyNewAttack, which
\* tests d.dg: nil, it answers an error; else it goes on to post a message.
\* Shutdown sets d.dg to nil from another goroutine with nothing ordering
\* the two, so each later read of d.dg is a step of its own.  When the
\* operation has returned the cycle runs to its end, where the attack gives
\* no other event and cleanupEndedAttacks is the last statement
BotNotifyNew ==
    /\ Running
    /\ botCall.pc = "idle"
    /\ BotAttack.id \notin DOMAIN knownAttacks
    /\ IF dgClosed
       THEN /\ botLast' = [op |-> "New", passed |-> "", did |-> "error", target |-> ""]
            /\ knownAttacks' = cleanupEndedAttacks(Put(knownAttacks, BotAttack.id, BotAttack), now)
            /\ UNCHANGED botCall
       ELSE /\ botCall' = [op |-> "New", pc |-> "send", passed |-> "", messageID |-> ""]
            /\ knownAttacks' = Put(knownAttacks, BotAttack.id, BotAttack)
            /\ UNCHANGED botLast
    /\ UNCHANGED <<attackCache, posted, sent, refreshing, shown>>
    /\ UNCHANGED <<messageIDs, now, monitorMode, events, outcome, validAttacks, skipped,
                   everNew, everEnded, down, unread, fetches, fetchedList>>
    /\ UNCHANGED <<fanVars, entityVars, storeVars, loopVars>>

\* processActiveAttacks finds the attack changed and stores it, then
\* Manager.NotifyAttackUpdate looks the message id up and calls
\* DiscordBotIntegration.NotifyAttackUpdate, which tests d.dg, takes its
\* cached id when it was handed none, and goes on to edit the message it has
\* an id of, or to post one when it has none
BotNotifyUpdate ==
    /\ Running
    /\ botCall.pc = "idle"
    /\ BotAttack.id \in DOMAIN knownAttacks
    /\ LET passed == GetMessageID(messageIDs, BotAttack.id, BotName)
           messageID == BotMessageTarget(passed, BotAttack.id)
           stored == Put(knownAttacks, BotAttack.id,
                         IF knownAttacks[BotAttack.id] = BotAttack
                         THEN BotAttackGrown ELSE BotAttack)
       IN IF dgClosed
          THEN /\ botLast' = [op |-> "Update", passed |-> passed, did |-> "error",
                              target |-> passed]
               /\ knownAttacks' = cleanupEndedAttacks(stored, now)
               /\ UNCHANGED botCall
          ELSE /\ botCall' = [op |-> "Update",
                              pc |-> IF messageID # "" THEN "edit" ELSE "send",
                              passed |-> passed, messageID |-> messageID]
               /\ knownAttacks' = stored
               /\ UNCHANGED botLast
    /\ UNCHANGED <<attackCache, posted, sent, refreshing, shown>>
    /\ UNCHANGED <<messageIDs, now, monitorMode, events, outcome, validAttacks, skipped,
                   everNew, everEnded, down, unread, fetches, fetchedList>>
    /\ UNCHANGED <<fanVars, entityVars, storeVars, loopVars>>

\* checkForEndedAttacks stamps the attack, then Manager.NotifyAttackEnded
\* looks the message id up and calls DiscordBotIntegration.NotifyAttackEnded,
\* which begins as NotifyAttackUpdate does
BotNotifyEnded ==
    /\ Running
    /\ botCall.pc = "idle"
    /\ BotAttack.id \in DOMAIN knownAttacks
    /\ knownAttacks[BotAttack.id].endedAt = NoTime
    /\ LET passed == GetMessageID(messageIDs, BotAttack.id, BotName)
           messageID == BotMessageTarget(passed, BotAttack.id)
           stamped == [knownAttacks EXCEPT ![BotAttack.id].endedAt = now]
       IN IF dgClosed
          THEN /\ botLast' = [op |-> "Ended", passed |-> passed, did |-> "error",
                              target |-> passed]
               /\ knownAttacks' = cleanupEndedAttacks(stamped, now)
               /\ UNCHANGED botCall
          ELSE /\ botCall' = [op |-> "Ended",
                              pc |-> IF messageID # "" THEN "edit" ELSE "send",
                              passed |-> passed, messageID |-> messageID]
               /\ knownAttacks' = stamped
               /\ UNCHANGED botLast
    /\ UNCHANGED <<attackCache, posted, sent, refreshing, shown>>
    /\ UNCHANGED <<messageIDs, now, monitorMode, events, outcome, validAttacks, skipped,
                   everNew, everEnded, down, unread, fetches, fetchedList>>
    /\ UNCHANGED <<fanVars, entityVars, storeVars, loopVars>>

\* d.dg.ChannelMessageEditComplex of NotifyAttackUpdate / NotifyAttackEnded:
\* d.dg is read again, and the call panics when Shutdown has set it to nil.
\* The edit succeeds (NotifyAttackEnded then forgets the cached id), answers
\* Unknown Message for a message that is gone, which leads to the fallback
\* send, or answers another error, which is returned
BotEdit ==
    /\ Running
    /\ botCall.pc = "edit"
    /\ IF dgClosed
       THEN /\ outcome' = "panic"
            /\ UNCHANGED <<knownAttacks, botVars>>
       ELSE /\ UNCHANGED outcome
            /\ \E apiFails \in BOOLEAN :
                 IF apiFails
                 THEN /\ botLast' = [op |-> botCall.op, passed |-> botCall.passed,
                                     did |-> "error", target |-> botCall.messageID]
                      /\ botCall' = BotCallIdle
                      /\ knownAttacks' = cleanupEndedAttacks(knownAttacks, now)
                      /\ UNCHANGED <<attackCache, posted, sent, refreshing, shown>>
                 ELSE IF botCall.messageID \in posted
                 THEN /\ shown' = Put(shown, botCall.messageID, botCall.op)
                      /\ attackCache' = IF botCall.op = "Ended"
                                        THEN Remove(attackCache, {BotAttack.id})
                                        ELSE attackCache
                      /\ botLast' = [op |-> botCall.op, passed |-> botCall.passed,
                                     did |-> "edit", target |-> botCall.messageID]
                      /\ botCall' = BotCallIdle
                      /\ knownAttacks' = cleanupEndedAttacks(knownAttacks, now)
                      /\ UNCHANGED <<posted, sent, refreshing>>
                 ELSE /\ botCall' = [botCall EXCEPT !.pc = "fallback"]
                      /\ UNCHANGED <<knownAttacks, attackCache, posted, sent, botLast,
                                     refreshing, shown>>
    /\ UNCHANGED <<messageIDs, now, monitorMode, events, validAttacks, skipped,
                   everNew, everEnded, down, unread, fetches, fetchedList>>
    /\ UNCHANGED <<fanVars, entityVars, storeVars, loopVars>>

\* d.dg.ChannelMessageSendComplex after Unknown Message: d.dg is read again
\* (nil: panic); an error is returned; else a fresh message is posted, and
\* NotifyAttackUpdate caches the id it reads in the answer, empty or not,
\* while NotifyAttackEnded does not look at the answer
BotFallback ==
    /\ Running
    /\ botCall.pc = "fallback"
    /\ IF dgClosed
       THEN /\ outcome' = "panic"
            /\ UNCHANGED <<knownAttacks, botVars>>
       ELSE /\ UNCHANGED outcome
            /\ \E apiFails \in BOOLEAN :
                 IF apiFails
                 THEN /\ botLast' = [op |-> botCall.op, passed |-> botCall.passed,
                                     did |-> "error", target |-> botCall.messageID]
                      /\ botCall' = BotCallIdle
                      /\ knownAttacks' = cleanupEndedAttacks(knownAttacks, now)
                      /\ UNCHANGED <<attackCache, posted, sent, refreshing, shown>>
                 ELSE /\ sent < MaxMsgs
                      /\ sent' = sent + 1
                      /\ posted' = posted \cup {FreshMessageID}
                      /\ shown' = Put(shown, FreshMessageID, botCall.op)
                      /\ \E readID \in (IF botCall.op = "Update"
                                        THEN {FreshMessageID, ""} ELSE {FreshMessageID}) :
                            attackCache' = IF botCall.op = "Update"
                                           THEN Put(attackCache, BotAttack.id, readID)
                                           ELSE attackCache
                      /\ botLast' = [op |-> botCall.op, passed |-> botCall.passed,
                                     did |-> "fallback", target |-> FreshMessageID]
                      /\ botCall' = BotCallIdle
                      /\ knownAttacks' = cleanupEndedAttacks(knownAttacks, now)
                      /\ UNCHANGED refreshing
    /\ UNCHANGED <<messageIDs, now, monitorMode, events, validAttacks, skipped,
                   everNew, everEnded, down, unread, fetches, fetchedList>>
    /\ UNCHANGED <<fanVars, entityVars, storeVars, loopVars>>

\* d.dg.ChannelMessageSendComplex of an operation that has no message id:
\* d.dg is read again (nil: panic); an error is returned; else a message is
\* posted.  NotifyNewAttack and NotifyAttackUpdate cache the id they read in
\* the answer when it is not empty; NotifyNewAttack then starts the refresh
\* goroutine and returns the id, which the Manager tracks when it is not
\* empty; NotifyAttackEnded does not look at the answer
BotSend ==
    /\ Running
    /\ botCall.pc = "send"
    /\ IF dgClosed
       THEN /\ outcome' = "panic"
            /\ UNCHANGED <<knownAttacks, messageIDs, botVars>>
       ELSE /\ UNCHANGED outcome
            /\ \E apiFails \in BOOLEAN :
                 IF apiFails
                 THEN /\ botLast' = [op |-> botCall.op, passed |-> botCall.passed,
                                     did |-> "error", target |-> ""]
                      /\ botCall' = BotCallIdle
                      /\ knownAttacks' = cleanupEndedAttacks(knownAttacks, now)
                      /\ UNCHANGED <<messageIDs, attackCache, posted, sent, refreshing, shown>>
                 ELSE /\ sent < MaxMsgs
                      /\ sent' = sent + 1
                      /\ posted' = posted \cup {FreshMessageID}
                      /\ shown' = Put(shown, FreshMessageID, botCall.op)
                      /\ \E readID \in (IF botCall.op = "Ended"
                                        THEN {FreshMessageID} ELSE {FreshMessageID, ""}) :
                            /\ attackCache' = IF botCall.op # "Ended" /\ readID # ""
                                              THEN Put(attackCache, BotAttack.id, readID)
                                              ELSE attackCache
                            /\ refreshing' = IF botCall.op = "New" /\ readID # ""
                                             THEN refreshing \cup {readID} ELSE refreshing
                            /\ messageIDs' = IF botCall.op = "New"
                                             THEN TrackMessage(messageIDs, BotAttack.id,
                                                               BotName, readID)
                                             ELSE messageIDs
                      /\ botLast' = [op |-> botCall.op, passed |-> botCall.passed,
                                     did |-> "send", target |-> FreshMessageID]
                      /\ botCall' = BotCallIdle
                      /\ knownAttacks' = cleanupEndedAttacks(knownAttacks, now)
    /\ UNCHANGED <<now, monitorMode, events, validAttacks, skipped,
                   everNew, everEnded, down, unread, fetches, fetchedList>>
    /\ UNCHANGED <<fanVars, entityVars, storeVars, loopVars>>

\* somebody deletes one of the bot's messages in the Discord channel
DeleteUpstream ==
    /\ \E m \in posted : posted' = posted \ {m}
    /\ UNCHANGED <<trackerVars, messageIDs, down, unread, attackCache, sent, botLast, botCall,
                   refreshing, shown>>
    /\ UNCHANGED <<fanVars, entityVars, storeVars, loopVars>>

\* Manager.Shutdown, called by main on the termination signal:
\* DiscordBotIntegration.Shutdown closes the session and sets d.dg to nil;
\* the monitoring goroutine and the refresh goroutines go on running
BotShutdown ==
    /\ Running
    /\ ~dgClosed
    /\ dgClosed' = TRUE
    /\ UNCHANGED <<loopPC, tickerC, missed, ctxDone, phase, accesses, late>>
    /\ UNCHANGED <<trackerVars, messageIDs, down, unread>>
    /\ UNCHANGED <<fanVars, botVars, entityVars, storeVars>>

\* time passes
BotTick ==
    /\ now + TickHours <= MaxTime
    /\ now' = now + TickHours
    /\ UNCHANGED <<knownAttacks, monitorMode, events, outcome, validAttacks, skipped,
                   everNew, everEnded, messageIDs, down, unread, fetches, fetchedList>>
    /\ UNCHANGED <<fanVars, botVars, entityVars, storeVars, loopVars>>

\* a cycle in which the attack gives no event (it ended before and is not
\* listed): cleanupEndedAttacks alone acts on it
BotSweep ==
    /\ Running
    /\ botCall.pc = "idle"
    /\ knownAttacks' = cleanupEndedAttacks(knownAttacks, now)
    /\ knownAttacks' # knownAttacks
    /\ UNCHANGED <<now, monitorMode, events, outcome, validAttacks, skipped, everNew,
                   everEnded, messageIDs, down, unread, fetches, fetchedList>>
    /\ UNCHANGED <<fanVars, botVars, entityVars, storeVars, loopVars>>

BotNext ==
    \/ BotNotifyNew
    \/ BotNotifyUpdate
    \/ BotNotifyEnded
    \/ BotEdit
    \/ BotFallback
    \/ BotSend
    \/ DeleteUpstream
    \/ BotRefresh
    \/ BotShutdown
    \/ BotTick
    \/ BotSweep

BotSpec == BotInit /\ [][BotNext]_vars

(***************************************************************************)
(* The entity methods Attack.Equal and Attack.CalculateDiff, applied to    *)
(* two attacks drawn from a bounded set.                                   *)
(***************************************************************************)
EntityBase == Attack("a", "ip1", <<>>)

\* the attack fields Equal reads besides the signatures
EntityHeaders ==
    { EntityBase,
      [EntityBase EXCEPT !.id = "b"],
      [EntityBase EXCEPT !.dst = "ip2"],
      [EntityBase EXCEPT !.startedAt = NoTime],
      [EntityBase EXCEPT !.endedAt = TickHours] }

EntitySigs ==
    { SYN,
      [SYN EXCEPT !.pps = 20],
      [SYN EXCEPT !.endedAt = TickHours],
      UDP }

EntityAttacks ==
    {[h EXCEPT !.sigs = ss] : h \in EntityHeaders, ss \in SeqsUpTo(EntitySigs, MaxSigs)}
        \cup {NilAttack}

EntityInit ==
    /\ TrackerInit
    /\ LoopIdle
    /\ messageIDs = EmptyMap
    /\ monitorMode = "all"
    /\ down = {}
    /\ unread = FALSE
    /\ FanIdle
    /\ BotIdle
    /\ argA \in EntityAttacks
    /\ argB \in EntityAttacks
    /\ applied = "none"
    /\ isEqual = FALSE
    /\ diff = NilDiff
    /\ StoreIdle

\* argA.Equal(argB)
ApplyEqual ==
    /\ applied = "none"
    /\ applied' = "Equal"
    /\ isEqual' = Equal(argA, argB)
    /\ UNCHANGED <<argA, argB, diff>>
    /\ UNCHANGED <<trackerVars, messageIDs, down, unread, fanVars, botVars, storeVars, loopVars>>

\* argA.CalculateDiff(argB)
ApplyCalculateDiff ==
    /\ applied = "none"
    /\ applied' = "CalculateDiff"
    /\ diff' = CalculateDiff(argA, argB, now)
    /\ UNCHANGED <<argA, argB, isEqual>>
    /\ UNCHANGED <<trackerVars, messageIDs, down, unread, fanVars, botVars, storeVars, loopVars>>

EntityNext == ApplyEqual \/ ApplyCalculateDiff

EntitySpec == EntityInit /\ [][EntityNext]_vars

(***************************************************************************)
(* The MessageTracker on its own: any sequence of TrackMessage and         *)
(* GetMessageID calls.                                                     *)
(***************************************************************************)
StoreAttackIDs == {"", "a", "b"}
StoreNames == {"", "discord", "discord_bot"}
StoreMessageIDs == {"", "m1", "m2"}

StoreInit ==
    /\ TrackerInit
    /\ LoopIdle
    /\ messageIDs = EmptyMap
    /\ monitorMode = "all"
    /\ down = {}
    /\ unread = FALSE
    /\ FanIdle
    /\ BotIdle
    /\ EntityIdle
    /\ StoreIdle

\* messageTracker.TrackMessage(attackID, integrationName, messageID)
StoreTrack ==
    /\ \E attackID \in StoreAttackIDs, integrationName \in StoreNames,
          messageID \in StoreMessageIDs :
         /\ messageIDs' = TrackMessage(messageIDs, attackID, integrationName, messageID)
         /\ storeCall' = [fn |-> "TrackMessage", attackID |-> attackID,
                          integrationName |-> integrationName, messageID |-> messageID]
         /\ recorded' = IF attackID # "" /\ integrationName # "" /\ messageID # ""
                        THEN Put(recorded, <<attackID, integrationName>>, messageID)
                        ELSE recorded
    /\ UNCHANGED <<trackerVars, down, unread, fanVars, botVars, entityVars, loopVars, caller, mu>>

\* messageTracker.GetMessageID(attackID, integrationName)
StoreGet ==
    /\ \E attackID \in StoreAttackIDs, integrationName \in StoreNames :
         storeCall' = [fn |-> "GetMessageID", attackID |-> attackID,
                       integrationName |-> integrationName,
                       messageID |-> GetMessageID(messageIDs, attackID, integrationName)]
    /\ UNCHANGED <<trackerVars, messageIDs, down, unread, fanVars, botVars, entityVars, recorded,
                   loopVars, caller, mu>>

StoreNext == StoreTrack \/ StoreGet

StoreSpec == StoreInit /\ [][StoreNext]_vars

(***************************************************************************)
(* The MessageTracker under concurrent calls: each dispatch task makes one *)
(* call, at any time, and runs it statement by statement; mu is the        *)
(* sync.RWMutex of the store.  A reader is let in whenever no writer holds *)
(* mu: that a waiting writer holds later readers back only removes         *)
(* interleavings.                                                          *)
(***************************************************************************)
ConcCalls ==
    {[fn |-> "TrackMessage", attackID |-> "a", integrationName |-> "discord",
      messageID |-> "m1"],
     [fn |-> "TrackMessage", attackID |-> "a", integrationName |-> "discord",
      messageID |-> "m2"],
     [fn |-> "TrackMessage", attackID |-> "a", integrationName |-> "discord_bot",
      messageID |-> "m1"],
     [fn |-> "TrackMessage", attackID |-> "a", integrationName |-> "",
      messageID |-> "m1"],
     [fn |-> "GetMessageID", attackID |-> "a", integrationName |-> "discord",
      messageID |-> ""],
     [fn |-> "GetMessageID", attackID |-> "a", integrationName |-> "discord_bot",
      messageID |-> ""],
     [fn |-> "RemoveMessage", attackID |-> "a", integrationName |-> "",
      messageID |-> ""]}

ConcInit == StoreInit

ConcFrame == UNCHANGED <<trackerVars, down, unread, fanVars, botVars, entityVars, loopVars,
                         storeCall, recorded>>

\* the task moves on to statement pc
Goes(t, pc) == caller' = [caller EXCEPT ![t].pc = pc]

\* a Lock that lets the writer in whoever holds mu
MuLockNotExcluding(t) == mu' = [mu EXCEPT !.writer = t]

\* m.mu.Lock()
MuLock(t) ==
    /\ mu.writer = ""
    /\ mu.readers = {}
    /\ mu' = [mu EXCEPT !.writer = t]

\* m.mu.RLock()
MuRLock(t) ==
    /\ mu.writer = ""
    /\ mu' = [mu EXCEPT !.readers = @ \cup {t}]

\* defer m.mu.Unlock() / defer m.mu.RUnlock()
MuUnlock(t) ==
    mu' = IF caller[t].fn = "GetMessageID"
          THEN [mu EXCEPT !.readers = @ \ {t}]
          ELSE [mu EXCEPT !.writer = ""]

\* a dispatch task calls a method of the store
ConcCall(t) ==
    /\ caller[t].pc = "none"
    /\ \E c \in ConcCalls :
         caller' = [caller EXCEPT ![t] = [fn |-> c.fn, attackID |-> c.attackID,
                                          integrationName |-> c.integrationName,
                                          messageID |-> c.messageID, pc |-> "called",
                                          ret |-> "", held |-> EmptyMap]]
    /\ UNCHANGED <<messageIDs, mu>>
    /\ ConcFrame

\* TrackMessage, statement by statement
ConcTrack(t) ==
    /\ caller[t].fn = "TrackMessage"
    /\ \E c \in {caller[t]} :
         \/ /\ c.pc = "called"
            /\ c.messageID = "" \/ c.attackID = "" \/ c.integrationName = ""
            /\ Goes(t, "done")
            /\ UNCHANGED <<messageIDs, mu>>
         \/ /\ c.pc = "called"
            /\ ~(c.messageID = "" \/ c.attackID = "" \/ c.integrationName = "")
            /\ MuLock(t)
            /\ Goes(t, "check")
            /\ UNCHANGED messageIDs
         \/ /\ c.pc = "check"
            /\ Goes(t, IF c.attackID \in DOMAIN messageIDs THEN "store" ELSE "make")
            /\ UNCHANGED <<messageIDs, mu>>
         \/ /\ c.pc = "make"
            /\ messageIDs' = Put(messageIDs, c.attackID, EmptyMap)
            /\ Goes(t, "store")
            /\ UNCHANGED mu
         \/ /\ c.pc = "store"
            /\ IF c.attackID \in DOMAIN messageIDs
               THEN /\ messageIDs' = Put(messageIDs, c.attackID,
                                         Put(messageIDs[c.attackID], c.integrationName,
                                             c.messageID))
                    /\ Goes(t, "unlock")
               ELSE /\ Goes(t, "panicked")
                    /\ UNCHANGED messageIDs
            /\ UNCHANGED mu
    /\ ConcFrame

\* GetMessageID, statement by statement
ConcGet(t) ==
    /\ caller[t].fn = "GetMessageID"
    /\ \E c \in {caller[t]} :
         \/ /\ c.pc = "called"
            /\ MuRLock(t)
            /\ Goes(t, "lookup")
         \/ /\ c.pc = "lookup"
            /\ caller' = IF c.attackID \in DOMAIN messageIDs
                         THEN [caller EXCEPT ![t].held = messageIDs[c.attackID],
                                             ![t].pc = "index"]
                         ELSE [caller EXCEPT ![t].ret = "", ![t].pc = "unlock"]
            /\ UNCHANGED mu
         \/ /\ c.pc = "index"
            /\ caller' = [caller EXCEPT
                            ![t].ret = IF c.integrationName \in DOMAIN c.held
                                       THEN c.held[c.integrationName] ELSE "",
                            ![t].pc = "unlock"]
            /\ UNCHANGED mu
    /\ UNCHANGED messageIDs
    /\ ConcFrame

\* RemoveMessage, statement by statement
ConcRemove(t) ==
    /\ caller[t].fn = "RemoveMessage"
    /\ \/ /\ caller[t].pc = "called"
          /\ MuLock(t)
          /\ Goes(t, "delete")
          /\ UNCHANGED messageIDs
       \/ /\ caller[t].pc = "delete"
          /\ messageIDs' = RemoveMessage(messageIDs, caller[t].attackID)
          /\ Goes(t, "unlock")
          /\ UNCHANGED mu
    /\ ConcFrame

\* the method returns: the deferred unlock runs
ConcReturn(t) ==
    /\ caller[t].pc = "unlock"
    /\ MuUnlock(t)
    /\ Goes(t, "done")
    /\ UNCHANGED messageIDs
    /\ ConcFrame

ConcNext ==
    \E t \in Integrations :
        \/ ConcCall(t)
        \/ ConcTrack(t)
        \/ ConcGet(t)
        \/ ConcRemove(t)
        \/ ConcReturn(t)

ConcSpec == ConcInit /\ [][ConcNext]_vars

(***************************************************************************)
(* Properties of the lifecycle tracker.                                    *)
(***************************************************************************)
AllIDs == {a.id : a \in Upstream}

CountKind(evs, kind, id) ==
    Cardinality({i \in 1..Len(evs) : evs[i].kind = kind /\ evs[i].attack.id = id})

FirstWithID(attacks, id) ==
    attacks[CHOOSE i \in 1..Len(attacks) :
                /\ attacks[i].id = id
                /\ \A j \in 1..(i - 1) : attacks[j].id # id]

EndedSet(known, id) == id \in DOMAIN known /\ known[id].endedAt # NoTime

\* C1, as stated: over all cycles an id is dispatched New at most once.
C1_NewAtMostOnceEver ==
    [][\A id \in AllIDs :
          CountKind(events', "New", id) + (IF id \in everNew THEN 1 ELSE 0) <= 1]_vars

\* C1, amended: a cycle dispatches New at most once for an id, and only for
\* an id the table does not hold when the cycle starts; an id that fired New
\* before fires it again only after the retention sweep removed it.
C1_NewOnlyWhenAbsent ==
    [][\A id \in AllIDs :
          /\ CountKind(events', "New", id) <= 1
          /\ CountKind(events', "New", id) = 1 => id \notin DOMAIN knownAttacks]_vars

C1_Witness ==
    /\ outcome = "ok"
    /\ \E id \in everEnded : CountKind(events, "New", id) = 1

\* C2: once Ended was dispatched for an id, no later cycle dispatches any
\* New, Update or Ended notification for that id.
C2_EndedIsTerminal ==
    [][\A i \in 1..Len(events') : events'[i].attack.id \notin everEnded]_vars

\* C3: an id the table holds un-ended and the cycle's filtered list lacks is
\* dispatched exactly one Ended in that cycle and stamped, and its endedAt
\* stays set in every later cycle.
C3_EndedOnceAndStaysEnded ==
    [][/\ \A id \in DOMAIN knownAttacks :
            (/\ outcome' = "ok"
             /\ knownAttacks[id].endedAt = NoTime
             /\ id \notin IDsOf(validAttacks'))
            => /\ CountKind(events', "Ended", id) = 1
               /\ EndedSet(knownAttacks', id)
       /\ \A id \in DOMAIN knownAttacks' :
            EndedSet(knownAttacks, id) => EndedSet(knownAttacks', id)]_vars

\* C4: endedAt of a table entry never goes from set back to absent while the
\* id stays in the table.
C4_EndedAtMonotonic ==
    [][\A id \in (DOMAIN knownAttacks) \cap (DOMAIN knownAttacks') :
          knownAttacks[id].endedAt # NoTime => knownAttacks'[id].endedAt # NoTime]_vars

\* C5: a cycle whose fetch fails dispatches nothing and leaves the table, the
\* correlation store and everything the next cycle reads as they were.
C5_FetchFailureAborts ==
    [][outcome' = "error" =>
          /\ events' = <<>>
          /\ knownAttacks' = knownAttacks
          /\ messageIDs' = messageIDs
          /\ <<now, monitorMode, down>>' = <<now, monitorMode, down>>]_vars

C5_Witness ==
    /\ outcome = "error"
    /\ \E id \in DOMAIN knownAttacks : knownAttacks[id].endedAt = NoTime

\* C7: in both monitor modes no table entry and no dispatched notification
\* is for a blacklisted target.
C7_BlacklistSilent ==
    /\ \A id \in DOMAIN knownAttacks : knownAttacks[id].dst \notin BlacklistedIPs
    /\ \A i \in 1..Len(events) : events[i].attack.dst \notin BlacklistedIPs

C7_Witness ==
    /\ outcome = "ok"
    /\ "blacklisted" \in skipped
    /\ Len(events) > 0

\* C8: after a cycle's retention sweep at time now the table holds no entry
\* ended more than 24 hours before now; every entry ended at most 24 hours
\* before now is still there as it was, and so is every un-ended entry,
\* whatever the fetch returned.
C8_RetentionSweep ==
    [][outcome' = "ok" =>
          /\ \A id \in DOMAIN knownAttacks' :
                ~(/\ knownAttacks'[id].endedAt # NoTime
                  /\ now' - knownAttacks'[id].endedAt > RetentionHours)
          /\ \A id \in DOMAIN knownAttacks :
                (/\ knownAttacks[id].endedAt # NoTime
                 /\ now - knownAttacks[id].endedAt <= RetentionHours
                 /\ id \notin IDsOf(validAttacks'))
                => (id \in DOMAIN knownAttacks' /\ knownAttacks'[id] = knownAttacks[id])
          /\ \A id \in DOMAIN knownAttacks :
                knownAttacks[id].endedAt = NoTime => id \in DOMAIN knownAttacks'
          /\ IDsOf(validAttacks') \subseteq DOMAIN knownAttacks']_vars

C8_Witness ==
    /\ outcome = "ok"
    /\ "a" \in everEnded /\ "a" \notin DOMAIN knownAttacks
    /\ "b" \in DOMAIN knownAttacks
    /\ knownAttacks["b"].endedAt # NoTime
    /\ now - knownAttacks["b"].endedAt = RetentionHours

\* C9: no cycle dispatches both a New and an Ended notification for one id.
C9_NeverNewAndEnded ==
    \A id \in AllIDs :
        ~(CountKind(events, "New", id) > 0 /\ CountKind(events, "Ended", id) > 0)

C9_Witness ==
    /\ outcome = "ok"
    /\ \E i, j \in 1..Len(events) : events[i].kind = "New" /\ events[j].kind = "Ended"

\* C10: a cycle dispatches exactly one New for every id of its filtered list
\* that the table did not hold, carrying the first record of that id, and the
\* table holds the id afterwards (that record, unless the same list updated it).
C10_AbsentBecomesNew ==
    [][outcome' = "ok" =>
          \A id \in IDsOf(validAttacks') \ DOMAIN knownAttacks :
             /\ CountKind(events', "New", id) = 1
             /\ \E i \in 1..Len(events') :
                   events'[i] = NewEvent(FirstWithID(validAttacks', id))
             /\ id \in DOMAIN knownAttacks'
             /\ CountKind(events', "Update", id) = 0
                   => knownAttacks'[id] = FirstWithID(validAttacks', id)]_vars

C10_Witness ==
    /\ outcome = "ok"
    /\ now = 0
    /\ CountKind(events, "New", "a") = 1
    /\ CountKind(events, "New", "b") = 1
    /\ {"a", "b"} \subseteq DOMAIN knownAttacks

\* what the table holds for the id of the i-th record of the list when the
\* loop of processActiveAttacks reaches that record: the latest earlier
\* record of that id that was stored, else the entry the cycle started with;
\* NilAttack when the table holds nothing for the id
RECURSIVE StoredBefore(_, _, _)
StoredBefore(attacks, known, i) ==
    LET id == attacks[i].id
        prior == {j \in 1..(i - 1) : attacks[j].id = id}
    IN IF prior = {}
       THEN (IF id \in DOMAIN known THEN known[id] ELSE NilAttack)
       ELSE LET j == CHOOSE x \in prior : \A y \in prior : y <= x
                before == StoredBefore(attacks, known, j)
            IN IF Equal(attacks[j], before) THEN before ELSE attacks[j]

\* the positions of the list whose record meets a stored value it is not Equal to
Changed(attacks, known) ==
    {i \in 1..Len(attacks) :
        \E before \in {StoredBefore(attacks, known, i)} :
            ~before.isNil /\ ~Equal(attacks[i], before)}

NthOf(S, k) == CHOOSE i \in S : Cardinality({j \in S : j < i}) = k - 1

IsUpdate(ev) == ev.kind = "Update"

\* C11: the Update notifications of a cycle are, in list order, one for each
\* record whose id the table holds with a value the record is not Equal to;
\* each carries that record as current and the value stored just before the
\* overwrite as previous, and the table then holds the record (until a later
\* record of the same list replaces it).
C11_UpdateOnChange ==
    [][outcome' = "ok" =>
          \A changed \in {Changed(validAttacks', knownAttacks)} :
          \A updates \in {SelectSeq(events', IsUpdate)} :
             /\ Len(updates) = Cardinality(changed)
             /\ \A k \in 1..Len(updates) :
                   \A i \in {NthOf(changed, k)} :
                   \A rec \in {validAttacks'[i]} :
                      /\ updates[k].attack = rec
                      /\ updates[k].previous = StoredBefore(validAttacks', knownAttacks, i)
                      /\ (\A j \in (i + 1)..Len(validAttacks') :
                                validAttacks'[j].id # rec.id)
                            => knownAttacks'[rec.id] = rec]_vars

C11_Witness ==
    /\ outcome = "ok"
    /\ Len(events) = 1
    /\ events[1] = UpdateEvent(Attack("a", "ip1", <<SYN, UDP>>), Attack("a", "ip1", <<SYN>>))
    /\ knownAttacks["a"] = Attack("a", "ip1", <<SYN, UDP>>)

\* C14: when a cycle's retention sweep removes an id from the table, the
\* correlation store holds no message id for that id afterwards, for any
\* integration.
C14_PurgeForgetsCorrelation ==
    [][\A id \in (DOMAIN knownAttacks) \ (DOMAIN knownAttacks') :
          \A c \in Integrations : GetMessageID(messageIDs', id, c) = ""]_vars

\* C27: when every record of the cycle's list that names a known attack's id
\* is Equal to the value stored for it, the cycle dispatches no notification
\* for that id and leaves its table entry and its entries of the correlation
\* store as they were.
C27_EqualRecordIsNoOp ==
    [][outcome' = "ok" =>
          \A id \in (DOMAIN knownAttacks) \cap IDsOf(validAttacks') :
             (\A i \in 1..Len(validAttacks') :
                 validAttacks'[i].id = id => Equal(validAttacks'[i], knownAttacks[id]))
             => /\ \A k \in 1..Len(events') : events'[k].attack.id # id
                /\ id \in DOMAIN knownAttacks'
                /\ knownAttacks'[id] = knownAttacks[id]
                /\ (id \in DOMAIN messageIDs') = (id \in DOMAIN messageIDs)
                /\ \A c \in Integrations :
                      GetMessageID(messageIDs', id, c) = GetMessageID(messageIDs, id, c)]_vars

\* a cycle that found the known attack a unchanged next to a new attack b
C27_Witness ==
    /\ outcome = "ok"
    /\ \E i \in 1..Len(validAttacks) :
          /\ validAttacks[i].id = "a"
          /\ knownAttacks["a"] = validAttacks[i]
    /\ \A k \in 1..Len(events) : events[k].attack.id # "a"
    /\ "b" \in EventIDs(events, "New")
    /\ GetMessageID(messageIDs, "a", "discord_bot") = "bot-a"

\* C25: the table a cycle leaves and the notifications it dispatches are
\* those the same cycle (same table before, same list, same clock) leaves and
\* dispatches when every integration's call succeeds and when every one
\* that can fail does: the same New and Update notifications in the same
\* order, and the same Ended notifications.
C25_ChannelOutcomesDoNotSteer ==
    [][outcome' = "ok" =>
          \A st1 \in {processActiveAttacks(validAttacks',
                          [known |-> knownAttacks, msgs |-> messageIDs, events |-> <<>>],
                          {})} :
          \A failed \in {processActiveAttacks(validAttacks',
                          [known |-> knownAttacks, msgs |-> messageIDs, events |-> <<>>],
                          Integrations \ {"console"})} :
          \A ending \in {ImplicitlyEnded(st1.known, IDsOf(validAttacks'))} :
          \A st2 \in {checkForEndedAttacks(validAttacks', st1, now, <<>>)} :
             /\ failed.known = st1.known
             /\ failed.events = st1.events
             /\ knownAttacks' = cleanupEndedAttacks(st2.known, now)
             /\ Len(events') = Len(st1.events) + Cardinality(ending)
             /\ SubSeq(events', 1, Len(st1.events)) = st1.events
             /\ {events'[k] : k \in (Len(st1.events) + 1)..Len(events')} =
                   {EndedEvent(st2.known[id]) : id \in ending}]_vars

\* a cycle in which the Discord webhook failed on a new attack: the store
\* has no id of it for the attack, the table and the notification are there
C25_Witness ==
    /\ outcome = "ok"
    /\ down = {"discord"}
    /\ "a" \in EventIDs(events, "New")
    /\ "a" \in DOMAIN knownAttacks
    /\ GetMessageID(messageIDs, "a", "discord") = ""
    /\ GetMessageID(messageIDs, "a", "discord_bot") = "bot-a"

(***************************************************************************)
(* Properties of the tracker over lists that hold invalid records.         *)
(***************************************************************************)
\* a record with an id and a target address
HasIDAndAddress(a) == ~a.isNil /\ a.id # "" /\ a.dst # ""

\* the ids of the fetched records that have an id and a target address
WellFormedIDs(attacks) ==
    {attacks[i].id : i \in {j \in 1..Len(attacks) : HasIDAndAddress(attacks[j])}}

\* C28: a fetched record without an id or without a target address is not
\* in the cycle's list, is not stored in the table and is the subject of no
\* notification; and a known, active attack of whose id the cycle fetched
\* only such records is ended like one that was not fetched at all.
C28_InvalidRecordsAreInert ==
    [][outcome' = "ok" =>
          /\ \A i \in 1..Len(validAttacks') : HasIDAndAddress(validAttacks'[i])
          /\ \A id \in DOMAIN knownAttacks' :
                HasIDAndAddress(knownAttacks'[id]) /\ knownAttacks'[id].id = id
          /\ \A k \in 1..Len(events') : HasIDAndAddress(events'[k].attack)
          /\ \A id \in DOMAIN knownAttacks :
                (knownAttacks[id].endedAt = NoTime /\ id \notin WellFormedIDs(fetchedList'))
                   => /\ id \in EventIDs(events', "Ended")
                      /\ id \in DOMAIN knownAttacks'
                      /\ knownAttacks'[id].endedAt = now]_vars

\* a cycle that fetched a record of a without a target address and one
\* without an id: the known attack a was ended, nothing was stored of the
\* fetched records
C28_Witness ==
    /\ outcome = "ok"
    /\ monitorMode = "all"
    /\ fetchedList = <<Attack("a", "", <<SYN>>), Attack("", "ip1", <<SYN>>)>>
    /\ validAttacks = <<>>
    /\ skipped = {"invalid"}
    /\ EventIDs(events, "Ended") = {"a"}
    /\ knownAttacks["a"].dst = "ip1"
    /\ DOMAIN knownAttacks = {"a"}

(***************************************************************************)
(* Properties of the cycle with one fetch per address.                     *)
(***************************************************************************)
HasEvent(evs, ev) == \E k \in 1..Len(evs) : evs[k] = ev

\* the addresses the cycle is to fetch
ListedAddresses == {ip \in AddressSet : ~IsBlacklisted(ip)}

\* C21: in a cycle with one fetch per address in which the fetch for some
\* address fails, every other listed address is still fetched, and the valid
\* attack fetched for it is classified against the table: New when its id is
\* absent, Update when it is not Equal to the stored value, nothing otherwise.
C21_FailedFetchSkipsOnlyItsAddress ==
    [][(outcome' = "ok" /\ \E bad \in ListedAddresses : fetches'[bad].kind = "error") =>
          \A ip \in ListedAddresses :
             \A got \in {fetches'[ip]} :
                /\ got.kind # "skipped"
                /\ (got.kind = "attack" /\ isValidAttack(got.attack)) =>
                      /\ InSeq(got.attack, validAttacks')
                      /\ knownAttacks'[got.attack.id] = got.attack
                      /\ IF got.attack.id \notin DOMAIN knownAttacks
                         THEN HasEvent(events', NewEvent(got.attack))
                         ELSE IF ~Equal(got.attack, knownAttacks[got.attack.id])
                         THEN HasEvent(events',
                                       UpdateEvent(got.attack, knownAttacks[got.attack.id]))
                         ELSE got.attack.id \notin
                                 EventIDs(events', "New") \cup EventIDs(events', "Update")]_vars

\* the fetch for ip1 failed while the attack fetched for ip2 was notified as
\* new and the one the table held for ip1 was left out of the cycle's list
C21_Witness ==
    /\ outcome = "ok"
    /\ fetches["ip1"].kind = "error"
    /\ fetches["ip2"].kind = "attack"
    /\ HasEvent(events, NewEvent(fetches["ip2"].attack))
    /\ "a" \in DOMAIN knownAttacks

\* C22: a failed fetch for an address never ends a known, active attack on
\* that address: the cycle dispatches no Ended notification for it, and its
\* table entry still has no endedAt afterwards.
C22_FailedFetchNeverEnds ==
    [][outcome' = "ok" =>
          \A ip \in ListedAddresses :
             fetches'[ip].kind = "error" =>
                \A id \in DOMAIN knownAttacks :
                   (knownAttacks[id].dst = ip /\ knownAttacks[id].endedAt = NoTime) =>
                      /\ id \notin EventIDs(events', "Ended")
                      /\ id \in DOMAIN knownAttacks'
                      /\ knownAttacks'[id].endedAt = NoTime]_vars

\* C39: a nil record in the fetched list is taken as invalid and skipped,
\* and the cycle goes on with the other records and with ended detection:
\* no cycle is aborted by a panic, the only one a fetched list can cause
\* being that of a nil record.
C39_NilRecordIsSkipped == outcome # "panic"

\* C37: a cycle dispatches at most one lifecycle event (New, Update or
\* Ended) for an attack id, also when the fetched list names the id more
\* than once.
C37_OneEventPerIDAndCycle ==
    \A id \in AllIDs :
        Cardinality({i \in 1..Len(events) : events[i].attack.id = id}) <= 1

\* C38: NotifyNewAttack returns in the end whatever the number of registered
\* integrations, none included, given that every integration's call returns:
\* no task waits to send its result, results is closed once every task has
\* finished and not before, and the collector has read one result per
\* integration when it ends.
C38_NewFanOutTerminates ==
    /\ (op = "New" /\ mainPC = "spawn") ~> (mainPC = "returned")
    /\ [](op = "New" =>
             /\ \A c \in Integrations :
                   task[c] = "called" => ~closed /\ Len(results) < Cardinality(registered)
             /\ closed => \A c \in registered : task[c] = "done"
             /\ mainPC = "returned" =>
                   closed /\ results = <<>> /\ received = Cardinality(registered))

\* NotifyNewAttack returned with no integration registered: nothing was
\* started, results was closed and the collector read nothing
C38_Witness ==
    /\ op = "New"
    /\ registered = {}
    /\ mainPC = "returned"
    /\ closed
    /\ wg = 0
    /\ received = 0

\* C40: in NotifyAttackUpdate and NotifyAttackEnded no two tasks are inside
\* the write of lastErr at the same time.
C40_OneWriterOfLastErr ==
    Cardinality({c \in Integrations : task[c] = "writing"}) <= 1

(***************************************************************************)
(* Properties of the driver loop.                                          *)
(***************************************************************************)
\* C30: at most one execution of fetchAndProcessActiveAttacks is in progress
\* at any time, an execution begins only when all before it have returned,
\* and the accesses to knownAttacks happen cycle after cycle: none of a cycle
\* follows one of a later cycle; also when ticks were dropped because a
\* cycle outlasted the interval.
C30_CyclesNeverOverlap ==
    /\ Cardinality(InProgress) <= 1
    /\ \A n \in Begun : \A m \in 1..(n - 1) : phase[m] = "returned"
    /\ \A i, j \in 1..Len(accesses) :
          i < j => accesses[i].cycle <= accesses[j].cycle

\* the loop was slower than the ticker: a tick was dropped while another
\* waited; the third cycle began after the second had made all its accesses
C30_Witness ==
    /\ missed = 1
    /\ phase[2] = "returned"
    /\ phase[3] = "ended"
    /\ Len(accesses) = 7
    /\ accesses[6] = [cycle |-> 2, stage |-> "cleanup"]
    /\ accesses[7] = [cycle |-> 3, stage |-> "process"]

\* C31: once ctx is cancelled, monitorAttacks returns in the end, given
\* that the cycle in progress terminates: it does not go on running cycles
\* for ever.
C31_CancelledLoopReturns == ctxDone ~> (loopPC = "returned")

\* the loop returned although a tick was waiting, having run a cycle after
\* the one that was in progress
C31_Witness ==
    /\ ctxDone
    /\ loopPC = "returned"
    /\ tickerC = 1
    /\ phase[2] = "returned"
    /\ phase[3] = "none"

\* C35: no notification operation is invoked on a channel after it has
\* been shut down: no cycle calls the bot once Manager.Shutdown has closed
\* its session.
C35_NoNotifyAfterShutdown == late = {}

\* C36: the delayed refresh edit that the bot's NotifyNewAttack starts never
\* overwrites an Update or Ended edit applied to the message after the New
\* send: a message that shows an update or the end never goes back to
\* showing the new attack.
C36_RefreshNeverOverwrites ==
    [][\A m \in DOMAIN shown :
          shown[m] \in {"Update", "Ended"} => shown'[m] = shown[m] \/ shown'[m] # "New"]_vars

(***************************************************************************)
(* Properties of the message store under concurrent calls.                 *)
(***************************************************************************)
\* the calls of the tasks made one after the other, in the order given, on
\* the store: the store that results and what each call answers
RECURSIVE InOrder(_, _, _)
InOrder(order, msgs, rets) ==
    IF order = <<>> THEN [store |-> msgs, rets |-> rets]
    ELSE LET c == caller[Head(order)]
         IN CASE c.fn = "TrackMessage" ->
                   InOrder(Tail(order),
                           TrackMessage(msgs, c.attackID, c.integrationName, c.messageID),
                           rets)
              [] c.fn = "GetMessageID" ->
                   InOrder(Tail(order), msgs,
                           [rets EXCEPT ![Head(order)] =
                               GetMessageID(msgs, c.attackID, c.integrationName)])
              [] OTHER ->
                   InOrder(Tail(order), RemoveMessage(msgs, c.attackID), rets)

Orders ==
    {o \in [1..Cardinality(Integrations) -> Integrations] :
        \A t \in Integrations : \E i \in DOMAIN o : o[i] = t}

\* the task is between taking mu and releasing it
Holds(t) == caller[t].pc \in {"check", "make", "store", "lookup", "index", "delete",
                               "unlock"}

\* C32: concurrent TrackMessage, GetMessageID and RemoveMessage calls exclude
\* one another by the store's lock: a writer is never inside with another
\* call, no call fails, and when all have returned the store and the answers
\* are those of the calls made one after the other in some order.
C32_SomeSequentialOrder ==
    /\ \A t \in Integrations : caller[t].pc # "panicked"
    /\ \A t, u \in Integrations :
          t # u /\ Holds(t) /\ Holds(u) =>
              caller[t].fn = "GetMessageID" /\ caller[u].fn = "GetMessageID"
    /\ (\A t \in Integrations : caller[t].pc = "done") =>
          \E o \in Orders :
              InOrder(o, EmptyMap, [t \in Integrations |-> ""]) =
                  [store |-> messageIDs, rets |-> [t \in Integrations |-> caller[t].ret]]

\* a TrackMessage, a GetMessageID that answered the id it stored and a
\* RemoveMessage that emptied the store again have all returned
C32_Witness ==
    /\ \A t \in Integrations : caller[t].pc = "done"
    /\ caller["discord"].fn = "TrackMessage"
    /\ caller["discord_bot"].fn = "GetMessageID"
    /\ caller["discord_bot"].ret = "m1"
    /\ caller["webhook"].fn = "RemoveMessage"
    /\ messageIDs = EmptyMap

(***************************************************************************)
(* Properties of the fan-out.                                              *)
(***************************************************************************)
\* C6: each of the three Manager methods invokes every enabled integration's
\* operation exactly once, whichever integrations fail, and an integration
\* that is not failing answers success whatever the others answer.
C6_EveryChannelOnce ==
    /\ \A c \in Integrations : calls[c] <= 1
    /\ mainPC = "returned" =>
          \A c \in Integrations :
             /\ calls[c] = 1
             /\ task[c] = "done"
             /\ c \notin down => answer[c] = "ok"

C6_Witness ==
    /\ mainPC = "returned"
    /\ op = "New"
    /\ down = {"webhook"}
    /\ answer["webhook"] = "failed"
    /\ answer["discord"] = "ok"
    /\ GetMessageID(messageIDs, "a", "discord") = "m-a"

\* C12: when NotifyNewAttack has returned, the store maps (attack, c) to the
\* id c answered for every integration c that answered a non-empty id, it
\* holds what it held at the call for every integration that answered none,
\* and no other attack's entries were touched; in every interleaving.
C12_NewTracksReturnedIDs ==
    (mainPC = "returned" /\ op = "New") =>
        /\ \A c \in Integrations :
              LET m == msgID[c]
              IN GetMessageID(messageIDs, FanAttack.id, c) =
                    IF m # "" THEN m ELSE GetMessageID(trackedAtCall, FanAttack.id, c)
        /\ \A id \in ((DOMAIN messageIDs) \cup (DOMAIN trackedAtCall)) \ {FanAttack.id} :
              /\ id \in (DOMAIN messageIDs) \cap (DOMAIN trackedAtCall)
              /\ messageIDs[id] = trackedAtCall[id]

C12_Witness ==
    /\ mainPC = "returned"
    /\ op = "New"
    /\ down = {"discord"}
    /\ GetMessageID(trackedAtCall, "a", "discord") = "m-old"
    /\ GetMessageID(messageIDs, "a", "discord") = "m-old"
    /\ GetMessageID(messageIDs, "a", "discord_bot") = "bot-a"
    /\ GetMessageID(messageIDs, "a", "webhook") = ""

\* C13: each of the three Manager methods returns a non-nil error exactly
\* when at least one integration's call answered an error, in every
\* interleaving of the integrations' goroutines.
C13_ErrorIffAChannelFailed ==
    mainPC = "returned" =>
        (~IsNilErr(returned) <=> \E c \in Integrations : answer[c] = "failed")

\* two failing integrations whose unsynchronised writes of lastErr overlapped
C13_Witness ==
    /\ mainPC = "returned"
    /\ op = "Update"
    /\ Cardinality(down) = 2
    /\ ~IsNilErr(returned)
    /\ returned.tab # returned.data

\* C29: a Manager method returns only when every task started for the event
\* has run to its end: at the return, and from then on, no integration's
\* operation is about to be called or is being called, the WaitGroup counter
\* is zero, no result is left in the channel, and no call of a channel for
\* the event is still to come.
C29_ReturnsAfterEveryTask ==
    /\ [][(mainPC' = "returned" /\ mainPC # "returned") =>
             \A c \in Integrations : task[c] = "done" /\ answer[c] # "none"]_vars
    /\ [](mainPC = "returned" =>
             /\ wg = 0
             /\ results = <<>>
             /\ \A c \in Integrations : task[c] = "done"
             /\ refreshing = {})

\* C24: in NotifyAttackUpdate and NotifyAttackEnded the message id an
\* integration's operation is handed is the id the store held for (attack,
\* integration) at the call, empty if it held none, and is not the id the
\* store held for the attack under another integration's name.
C24_PassedIDIsTheChannelsOwn ==
    op \in {"Update", "Ended"} =>
        \A c \in Integrations :
            calls[c] = 1 =>
               /\ passedID[c] = GetMessageID(trackedAtCall, FanAttack.id, c)
               /\ passedID[c] # "" =>
                     \A k \in Integrations \ {c} :
                        passedID[c] # GetMessageID(trackedAtCall, FanAttack.id, k)

\* an update dispatched when two integrations had each answered an id
C24_Witness ==
    /\ mainPC = "returned"
    /\ op = "Update"
    /\ passedID["discord"] = "m-a"
    /\ passedID["discord_bot"] = "bot-a"
    /\ passedID["webhook"] = ""
    /\ \A c \in Integrations : calls[c] = 1

\* C23: when NotifyAttackUpdate or NotifyAttackEnded has returned, every
\* integration has either edited the message whose id the store holds for
\* (attack, integration) or, the store holding none, posted a new message (or
\* failed in the attempt, answering an error): none did nothing.
C23_NeverSilentlyDropped ==
    (mainPC = "returned" /\ op \in {"Update", "Ended"}) =>
        \A c \in Integrations :
            did[c] = IF GetMessageID(messageIDs, FanAttack.id, c) # "" THEN "edit" ELSE "send"

(***************************************************************************)
(* Properties of the Discord bot's conversation.                           *)
(***************************************************************************)
\* C15: after the bot fell back to posting a fresh message because its edit
\* target was missing, the next update or ended event for the attack that
\* reaches Discord edits that fresh message while it exists, instead of
\* addressing the missing one again.
C15_FallbackBoundsStaleness ==
    [][(/\ botLast.did = "fallback"
        /\ botLast.target \in posted
        /\ botLast' # botLast
        /\ botLast'.op \in {"Update", "Ended"}
        /\ botLast'.did # "error")
       => (botLast'.did = "edit" /\ botLast'.target = botLast.target)]_vars

(***************************************************************************)
(* Properties of the entity methods.                                       *)
(***************************************************************************)
\* C16: Equal is reflexive: an attack is Equal to itself.
C16_EqualReflexive ==
    (applied = "Equal" /\ argA = argB) => isEqual

\* C17: Equal is symmetric: a.Equal(b) and b.Equal(a) answer the same.
C17_EqualSymmetric ==
    applied = "Equal" => (isEqual <=> Equal(argB, argA))

SigSet(a) == {a.sigs[i] : i \in 1..Len(a.sigs)}

\* C18: for two attacks, Equal answers true exactly when id, target
\* address, startedAt and endedAt are the same and the two signature lists
\* hold the same set of signatures (same id, name, peaks and timestamps).
C18_EqualIffSameFields ==
    (applied = "Equal" /\ ~argA.isNil /\ ~argB.isNil) =>
        (isEqual <=> (/\ argA.id = argB.id
                      /\ argA.dst = argB.dst
                      /\ argA.startedAt = argB.startedAt
                      /\ argA.endedAt = argB.endedAt
                      /\ SigSet(argA) = SigSet(argB)))

\* C19: the diff of an attack against itself has no bpsPeakChange, no
\* ppsPeakChange and no newSignatures entry.
C19_SelfDiffIsQuiet ==
    (applied = "CalculateDiff" /\ argA = argB) =>
        /\ ~diff.panics
        /\ (DOMAIN diff.entries) \cap {"bpsPeakChange", "ppsPeakChange", "newSignatures"} = {}

C19_Witness ==
    /\ applied = "CalculateDiff"
    /\ argA = argB
    /\ ~argA.isNil
    /\ Len(argA.sigs) = 2
    /\ GetPeakBPS(argA) = 5000
    /\ GetPeakPPS(argA) = 50
    /\ ~diff.isNil
    /\ DOMAIN diff.entries = {}

\* the greatest of the values, and zero when none is greater
GreatestOf(values) == CHOOSE m \in values \cup {0} : \A v \in values \cup {0} : v <= m

\* the diff has the entry k, and it is v
Entry(d, k, v) == k \in DOMAIN d.entries /\ d.entries[k] = v

\* C33: of two attacks, CalculateDiff reports bpsPeakChange = peak(current) -
\* peak(previous) and bpsPeakCurrent = peak(current) exactly when the two bps
\* peaks differ, likewise for pps, and newSignatures = the names of exactly
\* the signatures of current whose id no signature of previous has.
C33_DiffReportsPeaksAndNewSignatures ==
    applied = "CalculateDiff" /\ ~argA.isNil /\ ~argB.isNil =>
        LET cur(f) == GreatestOf({argA.sigs[i][f] : i \in 1..Len(argA.sigs)})
            prev(f) == GreatestOf({argB.sigs[i][f] : i \in 1..Len(argB.sigs)})
            fresh == {i \in 1..Len(argA.sigs) :
                         \A j \in 1..Len(argB.sigs) : argB.sigs[j].id # argA.sigs[i].id}
            names == diff.entries["newSignatures"]
        IN /\ ~diff.panics /\ ~diff.isNil
           /\ IF cur("bps") # prev("bps")
              THEN /\ Entry(diff, "bpsPeakChange", cur("bps") - prev("bps"))
                   /\ Entry(diff, "bpsPeakCurrent", cur("bps"))
              ELSE {"bpsPeakChange", "bpsPeakCurrent"} \cap DOMAIN diff.entries = {}
           /\ IF cur("pps") # prev("pps")
              THEN /\ Entry(diff, "ppsPeakChange", cur("pps") - prev("pps"))
                   /\ Entry(diff, "ppsPeakCurrent", cur("pps"))
              ELSE {"ppsPeakChange", "ppsPeakCurrent"} \cap DOMAIN diff.entries = {}
           /\ IF fresh = {} THEN "newSignatures" \notin DOMAIN diff.entries
              ELSE /\ "newSignatures" \in DOMAIN diff.entries
                   /\ Len(names) = Cardinality(fresh)
                   /\ \A k \in 1..Len(names) :
                         \E i \in fresh :
                             /\ Cardinality({j \in fresh : j < i}) = k - 1
                             /\ names[k] = argA.sigs[i].name

\* the peak went from 1000 to 5000 by an added signature UDP
C33_Witness ==
    /\ applied = "CalculateDiff"
    /\ argB.sigs = <<SYN>>
    /\ argA.sigs = <<SYN, UDP>>
    /\ Entry(diff, "bpsPeakChange", 4000)
    /\ Entry(diff, "bpsPeakCurrent", 5000)
    /\ Entry(diff, "newSignatures", <<"UDP">>)

\* C34: CalculateDiff answers a diff that is nil or has no entry whenever
\* previous is nil or the two attacks do not have the same id: a diff with
\* an entry comes only of two attacks that are not nil and have the same id.
C34_DiffOnlyOfTheSameAttack ==
    (/\ applied = "CalculateDiff"
     /\ argB.isNil \/ argA.isNil \/ argA.id # argB.id) =>
        /\ ~diff.panics
        /\ diff.isNil \/ DOMAIN diff.entries = {}

\* C26: for two attacks of the same id, the incoming one and the stored one,
\* a diff of the incoming against the stored with at least one entry means
\* that Equal answers false for them, which is when the cycle notifies an
\* update.
C26_NonEmptyDiffIsNotified ==
    (/\ applied = "CalculateDiff"
     /\ ~argA.isNil /\ ~argB.isNil
     /\ argA.id = argB.id
     /\ ~diff.isNil
     /\ DOMAIN diff.entries # {}) => ~Equal(argA, argB)

(***************************************************************************)
(* Properties of the MessageTracker.                                       *)
(***************************************************************************)
\* C20: TrackMessage with an empty message id leaves the store as it was;
\* with a non-empty id and non-empty keys it makes GetMessageID of that key
\* answer the id and leaves what GetMessageID answers for every other key;
\* GetMessageID answers the id last recorded for its key, and the empty
\* string for a key that was never recorded.
C20_TrackThenGet ==
    [][/\ storeCall'.fn = "TrackMessage" =>
            LET call == storeCall'
            IN /\ call.messageID = "" => messageIDs' = messageIDs
               /\ (call.messageID # "" /\ call.attackID # "" /\ call.integrationName # "")
                    => /\ GetMessageID(messageIDs', call.attackID, call.integrationName)
                            = call.messageID
                       /\ \A id \in StoreAttackIDs, name \in StoreNames :
                             <<id, name>> # <<call.attackID, call.integrationName>>
                             => GetMessageID(messageIDs', id, name)
                                   = GetMessageID(messageIDs, id, name)
       /\ storeCall'.fn = "GetMessageID" =>
            LET key == <<storeCall'.attackID, storeCall'.integrationName>>
            IN storeCall'.messageID =
                  IF key \in DOMAIN recorded THEN recorded[key] ELSE ""]_vars

\* the id recorded last is read back while an older id of another
\* integration stays under the same attack
C20_Witness ==
    /\ storeCall = [fn |-> "GetMessageID", attackID |-> "a",
                    integrationName |-> "discord", messageID |-> "m2"]
    /\ GetMessageID(messageIDs, "a", "discord_bot") = "m1"
    /\ GetMessageID(messageIDs, "b", "discord") = ""

=============================================================================
